---- MODULE Spec2Model ----
(***************************************************************************)
(* A model of the table editor of inventory-real: the CSV parser, the      *)
(* table assembler and the CSV serializer of the import/export path        *)
(* (src/App.tsx, src/components/TableEditor.tsx), and the page and table   *)
(* state the handlers of App and TableEditor act upon.                     *)
(*                                                                         *)
(* A JavaScript string is a sequence of characters; a character is a TLA+  *)
(* string of one character, or a token naming one code unit that has no    *)
(* ASCII form ("U8868" is U+8868, "UFEFF" is the byte-order mark).         *)
(***************************************************************************)
EXTENDS Integers, Sequences, FiniteSets, TLC

VARIABLES
    \* parseCSVToRows, run one loop iteration at a time
    pc, csvText, i, rows, currentRow, currentCell, inQuotes,
    \* the rows handed to the serializer before the parser re-reads them
    srcRows,
    \* an export and the import of the exported file: the tables exported,
    \* the name and the text of the downloaded file, the tables the import
    \* assembles from it, and the text of exporting those again
    srcTables, download, detectedTables, reexported,
    \* the state of App: the pages, the row arrays their tables refer to, the
    \* active page, the edit mode, the files being read, the identifiers
    \* generated so far, the number of handler calls made, and what
    \* localStorage holds under STORAGE_KEY
    pages, heap, activePageId, isEditMode, reads, nextId, steps, storage

parseVars == <<pc, csvText, i, rows, currentRow, currentCell, inQuotes>>
fileVars == <<srcTables, download, detectedTables, reexported>>
appVars == <<pages, heap, activePageId, isEditMode, reads, nextId, steps, storage>>
vars == <<parseVars, srcRows, fileVars, appVars>>

\* null of JavaScript, which no identifier equals: generateId starts at 1
NULL == 0

\* localStorage.getItem(STORAGE_KEY) of a browser that has stored nothing
NO_ITEM == [kind |-> "absent", pages |-> <<>>]

\* App before its first effect has run: the initial values of useState
NoPages ==
    /\ pages = <<>>
    /\ heap = <<>>
    /\ activePageId = NULL
    /\ isEditMode = TRUE
    /\ reads = <<>>
    /\ nextId = 1
    /\ steps = 0

\* App not mounted, in a browser that has stored nothing
NoApp == NoPages /\ storage = NO_ITEM

-----------------------------------------------------------------------------
(* Characters and strings                                                  *)

DQ == "\""
COMMA == ","
LF == "\n"
CR == "\r"
SP == " "
BOM == "UFEFF"

\* csvText[k] of JavaScript with a 1-based k: undefined outside the string
CharAt(text, k) == IF k \in 1..Len(text) THEN text[k] ELSE "undefined"

\* every sequence over S of length at most n
RECURSIVE SeqsUpTo(_, _)
SeqsUpTo(S, n) ==
    IF n = 0 THEN {<<>>}
    ELSE LET shorter == SeqsUpTo(S, n - 1)
         IN  shorter \cup {Append(s, c) : s \in {t \in shorter : Len(t) = n - 1}, c \in S}

-----------------------------------------------------------------------------
(* parseCSVToRows (src/App.tsx:133-177)                                    *)

\* the locals of parseCSVToRows before the loop; st.i is the 1-based index
ParseStart ==
    [i |-> 1, rows |-> <<>>, currentRow |-> <<>>, currentCell |-> <<>>,
     inQuotes |-> FALSE]

\* QuotedChar without the "" escape: every double quote leaves quote mode
QuotedChar_NoEscape(st, char, nextChar) ==
    IF char = DQ
    THEN [st EXCEPT !.inQuotes = FALSE, !.i = @ + 1]
    ELSE [st EXCEPT !.currentCell = Append(@, char), !.i = @ + 1]

\* The loop body when inQuotes holds; the i++ of the for statement is
\* included in the new st.i.
QuotedChar(st, char, nextChar) ==
    IF char = DQ /\ nextChar = DQ
    THEN [st EXCEPT !.currentCell = Append(@, DQ), !.i = @ + 2]
    ELSE IF char = DQ
    THEN [st EXCEPT !.inQuotes = FALSE, !.i = @ + 1]
    ELSE [st EXCEPT !.currentCell = Append(@, char), !.i = @ + 1]

\* UnquotedChar without its last test: a CR not followed by LF is appended
UnquotedChar_KeepCR(st, char, nextChar) ==
    IF char = DQ
    THEN [st EXCEPT !.inQuotes = TRUE, !.i = @ + 1]
    ELSE IF char = COMMA
    THEN [st EXCEPT !.currentRow = Append(@, st.currentCell),
                    !.currentCell = <<>>, !.i = @ + 1]
    ELSE IF char = LF \/ (char = CR /\ nextChar = LF)
    THEN [st EXCEPT !.rows = Append(@, Append(st.currentRow, st.currentCell)),
                    !.currentRow = <<>>, !.currentCell = <<>>,
                    !.i = @ + (IF char = CR THEN 2 ELSE 1)]
    ELSE [st EXCEPT !.currentCell = Append(@, char), !.i = @ + 1]

\* UnquotedChar of a stricter parser: a double quote opens quote mode only
\* at the start of a field and is a literal character after that
UnquotedChar_QuoteAtStart(st, char, nextChar) ==
    IF char = DQ /\ st.currentCell = <<>>
    THEN [st EXCEPT !.inQuotes = TRUE, !.i = @ + 1]
    ELSE IF char = COMMA
    THEN [st EXCEPT !.currentRow = Append(@, st.currentCell),
                    !.currentCell = <<>>, !.i = @ + 1]
    ELSE IF char = LF \/ (char = CR /\ nextChar = LF)
    THEN [st EXCEPT !.rows = Append(@, Append(st.currentRow, st.currentCell)),
                    !.currentRow = <<>>, !.currentCell = <<>>,
                    !.i = @ + (IF char = CR THEN 2 ELSE 1)]
    ELSE IF char # CR
    THEN [st EXCEPT !.currentCell = Append(@, char), !.i = @ + 1]
    ELSE [st EXCEPT !.i = @ + 1]

\* The loop body when inQuotes does not hold.
UnquotedChar(st, char, nextChar) ==
    IF char = DQ
    THEN [st EXCEPT !.inQuotes = TRUE, !.i = @ + 1]
    ELSE IF char = COMMA
    THEN [st EXCEPT !.currentRow = Append(@, st.currentCell),
                    !.currentCell = <<>>, !.i = @ + 1]
    ELSE IF char = LF \/ (char = CR /\ nextChar = LF)
    THEN [st EXCEPT !.rows = Append(@, Append(st.currentRow, st.currentCell)),
                    !.currentRow = <<>>, !.currentCell = <<>>,
                    !.i = @ + (IF char = CR THEN 2 ELSE 1)]
    ELSE IF char # CR
    THEN [st EXCEPT !.currentCell = Append(@, char), !.i = @ + 1]
    ELSE [st EXCEPT !.i = @ + 1]

\* ScanChar that does not advance past a CR that no LF follows
ScanChar_Stuck(st, text) ==
    LET char == CharAt(text, st.i)
        nextChar == CharAt(text, st.i + 1)
    IN  IF st.inQuotes THEN QuotedChar(st, char, nextChar)
        ELSE IF char = CR /\ nextChar # LF THEN st
        ELSE UnquotedChar(st, char, nextChar)

\* one iteration of the for loop over csvText
ScanChar(st, text) ==
    LET char == CharAt(text, st.i)
        nextChar == CharAt(text, st.i + 1)
    IN  IF st.inQuotes THEN QuotedChar(st, char, nextChar)
        ELSE UnquotedChar(st, char, nextChar)

\* FinalFlush without its test: a last row is always pushed
FinalFlush_Always(st) ==
    Append(st.rows, Append(st.currentRow, st.currentCell))

\* the statement after the loop: the rows returned
FinalFlush(st) ==
    IF st.currentCell # <<>> \/ Len(st.currentRow) > 0
    THEN Append(st.rows, Append(st.currentRow, st.currentCell))
    ELSE st.rows

RECURSIVE ScanFrom(_, _)
ScanFrom(st, text) ==
    IF st.i > Len(text) THEN st ELSE ScanFrom(ScanChar(st, text), text)

parseCSVToRows(text) == FinalFlush(ScanFrom(ParseStart, text))

-----------------------------------------------------------------------------
(* escapeCSV and the joins of the serializers                              *)

\* a replace without the g flag: the first double quote only
DoubleQuotes_FirstOnly(str) ==
    IF \E k \in 1..Len(str) : str[k] = DQ
    THEN LET k == CHOOSE k \in 1..Len(str) :
                      str[k] = DQ /\ \A m \in 1..(k - 1) : str[m] # DQ
         IN  SubSeq(str, 1, k) \o <<DQ>> \o SubSeq(str, k + 1, Len(str))
    ELSE str

\* str.replace(/"/g, '""')
RECURSIVE DoubleQuotes(_)
DoubleQuotes(str) ==
    IF str = <<>> THEN <<>>
    ELSE (IF Head(str) = DQ THEN <<DQ, DQ>> ELSE <<Head(str)>>)
         \o DoubleQuotes(Tail(str))

\* escapeCSV without the replace: the field between two double quotes
escapeCSV_NoDoubling(str) == <<DQ>> \o str \o <<DQ>>

\* escapeCSV that quotes a field only when it holds a double quote, a
\* comma or a line break
escapeCSV_WhenNeeded(str) ==
    IF \E k \in 1..Len(str) : str[k] \in {DQ, COMMA, LF, CR}
    THEN <<DQ>> \o DoubleQuotes(str) \o <<DQ>>
    ELSE str

\* `"${(str || '').toString().replace(/"/g, '""')}"`
escapeCSV(str) == <<DQ>> \o DoubleQuotes(str) \o <<DQ>>

\* Array.prototype.join: the strings of parts with sep between them
RECURSIVE Join(_, _)
Join(parts, sep) ==
    IF parts = <<>> THEN <<>>
    ELSE IF Len(parts) = 1 THEN parts[1]
    ELSE parts[1] \o sep \o Join(Tail(parts), sep)

Map(f(_), s) == [k \in 1..Len(s) |-> f(s[k])]

\* row.map(escapeCSV).join(',')
RowLine(row) == Join(Map(escapeCSV, row), <<COMMA>>)

\* rows.map(row => row.map(escapeCSV).join(',')).join('\n')
RowLines(rs) == Join(Map(RowLine, rs), <<LF>>)

-----------------------------------------------------------------------------
(* String methods of JavaScript used by the import and the export          *)

\* the characters String.prototype.trim removes among those of the model:
\* white space and line terminators, U+FEFF included
WhiteSpace == {SP, LF, CR, BOM}

RECURSIVE TrimStart(_)
TrimStart(str) ==
    IF str # <<>> /\ Head(str) \in WhiteSpace THEN TrimStart(Tail(str)) ELSE str

RECURSIVE TrimEnd(_)
TrimEnd(str) ==
    IF str # <<>> /\ str[Len(str)] \in WhiteSpace
    THEN TrimEnd(SubSeq(str, 1, Len(str) - 1))
    ELSE str

Trim(str) == TrimEnd(TrimStart(str))

StartsWith(str, prefix) ==
    Len(str) >= Len(prefix) /\ SubSeq(str, 1, Len(prefix)) = prefix

EndsWith(str, suffix) ==
    Len(str) >= Len(suffix)
    /\ SubSeq(str, Len(str) - Len(suffix) + 1, Len(str)) = suffix

\* the places where pattern occurs in str
Occurrences(str, pattern) ==
    {k \in 1..(Len(str) - Len(pattern) + 1) :
        SubSeq(str, k, k + Len(pattern) - 1) = pattern}

Least(S) == CHOOSE k \in S : \A m \in S : k <= m

\* str.replace(pattern, '') with a string pattern: the first occurrence only
RemoveFirst(str, pattern) ==
    IF Occurrences(str, pattern) = {} THEN str
    ELSE LET k == Least(Occurrences(str, pattern))
         IN  SubSeq(str, 1, k - 1) \o SubSeq(str, k + Len(pattern), Len(str))

\* str.split(sep) with a separator of one character
RECURSIVE Split(_, _)
Split(str, sep) ==
    IF Occurrences(str, <<sep>>) = {} THEN <<str>>
    ELSE LET k == Least(Occurrences(str, <<sep>>))
         IN  <<SubSeq(str, 1, k - 1)>> \o Split(SubSeq(str, k + 1, Len(str)), sep)

\* new Array(n).fill('')
EmptyRow(n) == [k \in 1..n |-> <<>>]

-----------------------------------------------------------------------------
(* The table assembler of reader.onload (src/App.tsx:179-237)              *)

\* '>>> 表格：' and '<<<'
MARKER_PREFIX == <<">", ">", ">", SP, "U8868", "U683C", "UFF1A">>
MARKER_SUFFIX == <<"<", "<", "<">>

\* '匯入的表格'
IMPORTED_TITLE == <<"U532F", "U5165", "U7684", "U8868", "U683C">>

\* file.name.split('.').slice(0, -1).join('.') || '匯入的表格'
FileNameOf(name) ==
    LET parts == Split(name, ".")
        stem == Join(SubSeq(parts, 1, Len(parts) - 1), <<".">>)
    IN  IF stem = <<>> THEN IMPORTED_TITLE ELSE stem

\* (row[0] || '').trim()
FirstCellContent(row) == Trim(IF Len(row) = 0 THEN <<>> ELSE row[1])

\* row.some(cell => cell.trim() !== "")
HasContent(row) == \E k \in 1..Len(row) : Trim(row[k]) # <<>>

\* isMultiTableFile that looks at row 0 only
isMultiTableFile_FirstRowOnly(allParsedRows) ==
    StartsWith(FirstCellContent(allParsedRows[1]), MARKER_PREFIX)

isMultiTableFile(allParsedRows) ==
    \E k \in 1..Len(allParsedRows) :
        StartsWith(FirstCellContent(allParsedRows[k]), MARKER_PREFIX)

\* SingleTable without the filter: blank rows are data rows
SingleTable_KeepsBlankRows(allParsedRows, fileName) ==
    LET headers == Map(Trim, allParsedRows[1])
        dataRows == Tail(allParsedRows)
    IN  [title |-> fileName,
         columns |-> headers,
         rows |-> IF Len(dataRows) > 0 THEN dataRows
                  ELSE <<EmptyRow(Len(headers))>>]

\* SingleTable with the headers as they are in row 0
SingleTable_UntrimmedHeaders(allParsedRows, fileName) ==
    LET headers == allParsedRows[1]
        dataRows == SelectSeq(Tail(allParsedRows), HasContent)
    IN  [title |-> fileName,
         columns |-> headers,
         rows |-> IF Len(dataRows) > 0 THEN dataRows
                  ELSE <<EmptyRow(Len(headers))>>]

\* SingleTable with every data row padded or cut to the number of headers
SingleTable_PadsRows(allParsedRows, fileName) ==
    LET headers == Map(Trim, allParsedRows[1])
        dataRows == SelectSeq(Tail(allParsedRows), HasContent)
        padded == [r \in 1..Len(dataRows) |->
                      [k \in 1..Len(headers) |->
                          IF k <= Len(dataRows[r]) THEN dataRows[r][k] ELSE <<>>]]
    IN  [title |-> fileName,
         columns |-> headers,
         rows |-> IF Len(dataRows) > 0 THEN padded
                  ELSE <<EmptyRow(Len(headers))>>]

\* the table pushed by the single-table branch
SingleTable(allParsedRows, fileName) ==
    LET headers == Map(Trim, allParsedRows[1])
        dataRows == SelectSeq(Tail(allParsedRows), HasContent)
    IN  [title |-> fileName,
         columns |-> headers,
         rows |-> IF Len(dataRows) > 0 THEN dataRows
                  ELSE <<EmptyRow(Len(headers))>>]

\* firstCellContent.replace('>>> 表格：', '').replace('<<<', '').trim()
extractedTitle(firstCellContent) ==
    Trim(RemoveFirst(RemoveFirst(firstCellContent, MARKER_PREFIX), MARKER_SUFFIX))

\* MultiTableRow without the test for blank rows
MultiTableRow_KeepsBlankRows(tables, row) ==
    LET firstCellContent == FirstCellContent(row)
        n == Len(tables)
    IN  IF StartsWith(firstCellContent, MARKER_PREFIX)
           /\ EndsWith(firstCellContent, MARKER_SUFFIX)
        THEN Append(tables, [title |-> extractedTitle(firstCellContent),
                             columns |-> <<>>, rows |-> <<>>])
        ELSE IF n > 0
        THEN IF Len(tables[n].columns) = 0
             THEN [tables EXCEPT ![n].columns = Map(Trim, row)]
             ELSE [tables EXCEPT ![n].rows = Append(@, row)]
        ELSE tables

\* MultiTableRow that trims the fields of a data row as it does the headers
MultiTableRow_TrimsData(tables, row) ==
    LET firstCellContent == FirstCellContent(row)
        n == Len(tables)
    IN  IF StartsWith(firstCellContent, MARKER_PREFIX)
           /\ EndsWith(firstCellContent, MARKER_SUFFIX)
        THEN Append(tables, [title |-> extractedTitle(firstCellContent),
                             columns |-> <<>>, rows |-> <<>>])
        ELSE IF n > 0
        THEN IF ~HasContent(row) THEN tables
             ELSE IF Len(tables[n].columns) = 0
             THEN [tables EXCEPT ![n].columns = Map(Trim, row)]
             ELSE [tables EXCEPT ![n].rows = Append(@, Map(Trim, row))]
        ELSE tables

\* MultiTableRow that takes a row with the prefix for a marker row, whether
\* or not it ends with the suffix
MultiTableRow_PrefixOnly(tables, row) ==
    LET firstCellContent == FirstCellContent(row)
        n == Len(tables)
    IN  IF StartsWith(firstCellContent, MARKER_PREFIX)
        THEN Append(tables, [title |-> extractedTitle(firstCellContent),
                             columns |-> <<>>, rows |-> <<>>])
        ELSE IF n > 0
        THEN IF ~HasContent(row) THEN tables
             ELSE IF Len(tables[n].columns) = 0
             THEN [tables EXCEPT ![n].columns = Map(Trim, row)]
             ELSE [tables EXCEPT ![n].rows = Append(@, row)]
        ELSE tables

\* One call of the forEach callback of the multi-table branch; currentTable
\* is the table pushed last, when there is one.
MultiTableRow(tables, row) ==
    LET firstCellContent == FirstCellContent(row)
        n == Len(tables)
    IN  IF StartsWith(firstCellContent, MARKER_PREFIX)
           /\ EndsWith(firstCellContent, MARKER_SUFFIX)
        THEN Append(tables, [title |-> extractedTitle(firstCellContent),
                             columns |-> <<>>, rows |-> <<>>])
        ELSE IF n > 0
        THEN IF ~HasContent(row) THEN tables
             ELSE IF Len(tables[n].columns) = 0
             THEN [tables EXCEPT ![n].columns = Map(Trim, row)]
             ELSE [tables EXCEPT ![n].rows = Append(@, row)]
        ELSE tables

RECURSIVE MultiTables(_, _)
MultiTables(tables, allParsedRows) ==
    IF allParsedRows = <<>> THEN tables
    ELSE MultiTables(MultiTableRow(tables, Head(allParsedRows)), Tail(allParsedRows))

\* Backfilled with a row without fields, whatever the number of columns
Backfilled_NoFields(t) ==
    IF Len(t.rows) = 0 THEN [t EXCEPT !.rows = << <<>> >>] ELSE t

\* the final clean-up: a table without rows gets one row of empty strings
Backfilled(t) ==
    IF Len(t.rows) = 0 THEN [t EXCEPT !.rows = <<EmptyRow(Len(t.columns))>>] ELSE t

\* detectedTables of reader.onload for the text of the file; the tables are
\* given their identifiers where they are added to the page
DetectTables(text, fileName) ==
    IF text = <<>> THEN <<>>
    ELSE LET allParsedRows == parseCSVToRows(text)
         IN  IF Len(allParsedRows) = 0 THEN <<>>
             ELSE IF ~isMultiTableFile(allParsedRows)
             THEN Map(Backfilled, <<SingleTable(allParsedRows, fileName)>>)
             ELSE Map(Backfilled, MultiTables(<<>>, allParsedRows))

\* FileReader.readAsText decodes the file as UTF-8, which removes a
\* byte-order mark at its start
readAsText(blob) == IF blob # <<>> /\ Head(blob) = BOM THEN Tail(blob) ELSE blob

-----------------------------------------------------------------------------
(* The serializers: downloadCSV and exportAllTablesOnPage                  *)

\* 'table' and '.csv'
TABLE_NAME == <<"t", "a", "b", "l", "e">>
CSV_EXTENSION == <<".", "c", "s", "v">>

\* the file downloadCSV offers for a table
downloadCSV(table) ==
    LET csvContent == Join(<<RowLine(table.columns)>> \o Map(RowLine, table.rows), <<LF>>)
    IN  [name |-> (IF table.title = <<>> THEN TABLE_NAME ELSE table.title)
                  \o CSV_EXTENSION,
         text |-> <<BOM>> \o csvContent]

\* '_全頁匯出.csv'
PAGE_EXPORT_SUFFIX == <<"_", "U5168", "U9801", "U532F", "U51FA">> \o CSV_EXTENSION

\* `${titleRow}\n${headerRow}\n${dataRows}` of one table
TableBlock(table) ==
    LET titleRow == RowLine(<<MARKER_PREFIX \o table.title \o <<SP>> \o MARKER_SUFFIX>>)
        headerRow == RowLine(table.columns)
        dataRows == RowLines(table.rows)
    IN  titleRow \o <<LF>> \o headerRow \o <<LF>> \o dataRows

\* exportAllTablesOnPage with one blank line between two tables
exportAllTablesOnPage_OneBlankLine(pageName, tables) ==
    [name |-> pageName \o PAGE_EXPORT_SUFFIX,
     text |-> <<BOM>> \o Join(Map(TableBlock, tables), <<LF, LF>>)]

\* the file exportAllTablesOnPage offers for the tables of the page
exportAllTablesOnPage(pageName, tables) ==
    [name |-> pageName \o PAGE_EXPORT_SUFFIX,
     text |-> <<BOM>> \o Join(Map(TableBlock, tables), <<LF, LF, LF>>)]

-----------------------------------------------------------------------------
(* The parser as a state machine                                           *)

MaxLen == 4

ParseChars == {"a", DQ, COMMA, LF, CR}

\* the example of the specification: ab"c,d"ef
MidFieldQuotes == <<"a", "b", DQ, "c", COMMA, "d", DQ, "e", "f">>

ParseInputs == SeqsUpTo(ParseChars, MaxLen) \cup {MidFieldQuotes}

\* no export or import is under way
NoFile ==
    /\ srcTables = <<>>
    /\ download = [name |-> <<>>, text |-> <<>>]
    /\ detectedTables = <<>>
    /\ reexported = <<>>

Locals == [i |-> i, rows |-> rows, currentRow |-> currentRow,
           currentCell |-> currentCell, inQuotes |-> inQuotes]

InitParse ==
    /\ pc = "scan"
    /\ csvText \in ParseInputs
    /\ i = ParseStart.i
    /\ rows = ParseStart.rows
    /\ currentRow = ParseStart.currentRow
    /\ currentCell = ParseStart.currentCell
    /\ inQuotes = ParseStart.inQuotes
    /\ srcRows = <<>>
    /\ NoFile
    /\ NoApp

ScanStep ==
    /\ pc = "scan"
    /\ i <= Len(csvText)
    /\ LET st == ScanChar(Locals, csvText)
       IN  /\ i' = st.i
           /\ rows' = st.rows
           /\ currentRow' = st.currentRow
           /\ currentCell' = st.currentCell
           /\ inQuotes' = st.inQuotes
    /\ UNCHANGED <<appVars, pc, csvText, srcRows, fileVars>>

Flush ==
    /\ pc = "scan"
    /\ i > Len(csvText)
    /\ rows' = FinalFlush(Locals)
    /\ pc' = "done"
    /\ UNCHANGED <<appVars, csvText, i, currentRow, currentCell, inQuotes, srcRows, fileVars>>

NextParse == ScanStep \/ Flush

SpecParse == InitParse /\ [][NextParse]_vars

\* parseCSVToRows runs to its return statement: the loop is synchronous and
\* nothing else runs until it has ended
SpecParseLive == InitParse /\ [][NextParse]_vars /\ WF_vars(NextParse)

\* the state machine returns what the function returns
ParseAgrees == pc = "done" => rows = parseCSVToRows(csvText)

-----------------------------------------------------------------------------
(* The parser's loop body and final flush, one step at a time              *)

AtChar == pc = "scan" /\ i <= Len(csvText)
ThisChar == CharAt(csvText, i)
FollowingChar == CharAt(csvText, i + 1)

\* the characters of every field of every row, in order
RECURSIVE Concat(_)
Concat(ss) == IF ss = <<>> THEN <<>> ELSE Head(ss) \o Concat(Tail(ss))

FieldChars(rs) == Concat(Map(Concat, rs))

IsDelimiter(c, n) == c = COMMA \/ c = LF \/ (c = CR /\ n = LF)
IsDelimiterOrCR(c, n) == c = COMMA \/ c = LF \/ c = CR

\* str without its delimiters; a CR not followed by LF stays iff loneCRStays
RECURSIVE Undelimited(_, _)
Undelimited(str, loneCRStays) ==
    IF str = <<>> THEN <<>>
    ELSE LET c == Head(str)
             n == CharAt(str, 2)
             dropped == IF loneCRStays THEN IsDelimiter(c, n)
                        ELSE IsDelimiterOrCR(c, n)
         IN  (IF dropped THEN <<>> ELSE <<c>>) \o Undelimited(Tail(str), loneCRStays)

\* C7: inside quote mode, "" appends one double quote and stays in quote
\* mode, a double quote not followed by another leaves quote mode and
\* appends nothing, and every other character (',', LF and CR included) is
\* appended unchanged; no step in quote mode ends the field or the row.
C7_QuoteMode ==
    [][(AtChar /\ inQuotes) =>
         /\ rows' = rows
         /\ currentRow' = currentRow
         /\ (ThisChar = DQ /\ FollowingChar = DQ =>
               /\ currentCell' = Append(currentCell, DQ)
               /\ inQuotes'
               /\ i' = i + 2)
         /\ (ThisChar = DQ /\ FollowingChar # DQ =>
               /\ currentCell' = currentCell
               /\ ~inQuotes')
         /\ (ThisChar # DQ =>
               /\ currentCell' = Append(currentCell, ThisChar)
               /\ inQuotes')]_vars

\* "", then a comma inside the quotes, and the input ends in quote mode
C7_Witness ==
    /\ pc = "done"
    /\ csvText = <<DQ, DQ, DQ, COMMA>>
    /\ inQuotes
    /\ rows = << << <<DQ, COMMA>> >> >>

\* what C8 and its amendment share: the double quote, the comma and the
\* row terminators outside quote mode
UnquotedDelimiters ==
    /\ (ThisChar = DQ =>
          /\ inQuotes'
          /\ <<rows', currentRow', currentCell'>> = <<rows, currentRow, currentCell>>)
    /\ (ThisChar = COMMA =>
          /\ currentRow' = Append(currentRow, currentCell)
          /\ currentCell' = <<>>
          /\ rows' = rows
          /\ ~inQuotes')
    /\ (ThisChar = LF \/ (ThisChar = CR /\ FollowingChar = LF) =>
          /\ rows' = Append(rows, Append(currentRow, currentCell))
          /\ currentRow' = <<>>
          /\ currentCell' = <<>>
          /\ ~inQuotes'
          /\ i' = i + (IF ThisChar = CR THEN 2 ELSE 1))

\* C8 as stated: outside quote mode a double quote turns quote mode on, ','
\* ends the field, LF or CR LF ends the row, and ANY other character is
\* appended, so that every character other than those delimiters appears in
\* the parsed fields.
C8_AsStated ==
    /\ [][(AtChar /\ ~inQuotes) =>
            /\ UnquotedDelimiters
            /\ (ThisChar # DQ /\ ~IsDelimiter(ThisChar, FollowingChar) =>
                  /\ currentCell' = Append(currentCell, ThisChar)
                  /\ <<rows', currentRow'>> = <<rows, currentRow>>)]_vars
    /\ [](pc = "done" /\ (\A k \in 1..Len(csvText) : csvText[k] # DQ) =>
            FieldChars(rows) = Undelimited(csvText, TRUE))

\* C8, amended: as C8, except that a CR not followed by LF is discarded: it
\* is not appended and ends neither the field nor the row; every character
\* other than the delimiters and such a CR appears in the parsed fields.
C8_Unquoted ==
    /\ [][(AtChar /\ ~inQuotes) =>
            /\ UnquotedDelimiters
            /\ (ThisChar # DQ /\ ~IsDelimiterOrCR(ThisChar, FollowingChar) =>
                  /\ currentCell' = Append(currentCell, ThisChar)
                  /\ <<rows', currentRow'>> = <<rows, currentRow>>)
            /\ (ThisChar = CR /\ FollowingChar # LF =>
                  /\ <<rows', currentRow', currentCell'>> = <<rows, currentRow, currentCell>>
                  /\ ~inQuotes'
                  /\ i' = i + 1)]_vars
    /\ [](pc = "done" /\ (\A k \in 1..Len(csvText) : csvText[k] # DQ) =>
            FieldChars(rows) = Undelimited(csvText, FALSE))

\* a lone CR inside a field and a CR LF ending the row
C8_Witness ==
    /\ pc = "done"
    /\ csvText = <<"a", CR, CR, LF>>
    /\ rows = << << <<"a">> >> >>

\* C9: a double quote met outside quote mode turns quote mode on wherever it
\* stands, also after characters of an unquoted field, and is not emitted;
\* ab"c,d"ef parses to the single field abc,def.
C9_QuoteToggle ==
    /\ [][(AtChar /\ ~inQuotes /\ ThisChar = DQ) =>
            /\ inQuotes'
            /\ currentCell' = currentCell
            /\ currentRow' = currentRow
            /\ rows' = rows]_vars
    /\ [](pc = "done" /\ csvText = MidFieldQuotes =>
            rows = << << <<"a", "b", "c", COMMA, "d", "e", "f">> >> >>)

C9_Witness ==
    /\ pc = "done"
    /\ csvText = MidFieldQuotes
    /\ Len(rows) = 1

\* C10: after the last character a final row is emitted if and only if the
\* accumulated field text is non-empty or a field was already pushed to the
\* current row; the empty input and an input that ends right after a row
\* terminator get no additional row.
C10_EndOfInput ==
    [][(pc = "scan" /\ i > Len(csvText)) =>
         /\ pc' = "done"
         /\ (currentCell # <<>> \/ Len(currentRow) > 0 =>
               rows' = Append(rows, Append(currentRow, currentCell)))
         /\ (currentCell = <<>> /\ Len(currentRow) = 0 => rows' = rows)
         /\ (csvText = <<>> => rows' = <<>>)
         /\ (csvText # <<>> /\ csvText[Len(csvText)] = LF /\ ~inQuotes =>
               rows' = rows)]_vars

\* a,LF then a: the row ended by LF and the final row of the flush
C10_Witness ==
    /\ pc = "done"
    /\ csvText = <<"a", COMMA, LF, "a">>
    /\ rows = << << <<"a">>, <<>> >>, << <<"a">> >> >>

\* C11: parsing is total.  For every input the scan index strictly increases
\* from one loop iteration to the next, by the one or two characters the
\* iteration consumes, so no character is consumed twice; the loop ends when
\* the index has passed the last character, and the parser then returns a
\* sequence of rows, each a non-empty sequence of strings, also when the
\* input ends inside quote mode.
C11_Total ==
    /\ [][pc = "scan" =>
             IF pc' = "scan"
             THEN i <= Len(csvText) /\ i' \in {i + 1, i + 2}
             ELSE /\ pc' = "done"
                  /\ i > Len(csvText)
                  /\ \A r \in 1..Len(rows') :
                        /\ Len(rows'[r]) >= 1
                        /\ \A c \in 1..Len(rows'[r]) :
                              rows'[r][c] \in Seq(ParseChars \cup {"b", "c", "d", "e", "f"})]_vars
    /\ <>(pc = "done")

\* the input "a,a ends inside quote mode and yields the one row [a,a]
C11_Witness ==
    /\ pc = "done"
    /\ csvText = <<DQ, "a", COMMA, "a">>
    /\ inQuotes
    /\ rows = << << <<"a", COMMA, "a">> >> >>

-----------------------------------------------------------------------------
(* Rows serialized and parsed again                                        *)

MaxSrcSize == 4

\* rs with one more character in its last field, one more (empty) field in
\* its last row, or one more row of one empty field
GrownRows(rs) ==
    LET r == Len(rs)
        f == Len(rs[r])
    IN  {[rs EXCEPT ![r][f] = Append(@, c)] : c \in ParseChars}
        \cup {[rs EXCEPT ![r] = Append(@, <<>>)], Append(rs, << <<>> >>)}

\* the non-empty sequences of non-empty rows with n fields and characters
RECURSIVE RowsOfSize(_)
RowsOfSize(n) ==
    IF n = 1 THEN {<< << <<>> >> >>}
    ELSE UNION {GrownRows(rs) : rs \in RowsOfSize(n - 1)}

SrcRowsInputs == UNION {RowsOfSize(n) : n \in 1..MaxSrcSize}

InitRows ==
    /\ pc = "rows"
    /\ srcRows \in SrcRowsInputs
    /\ csvText = <<>>
    /\ i = ParseStart.i
    /\ rows = ParseStart.rows
    /\ currentRow = ParseStart.currentRow
    /\ currentCell = ParseStart.currentCell
    /\ inQuotes = ParseStart.inQuotes
    /\ NoFile
    /\ NoApp

\* the text of the rows, which the parser then reads
SerializeRows ==
    /\ pc = "rows"
    /\ csvText' = RowLines(srcRows)
    /\ pc' = "scan"
    /\ UNCHANGED <<appVars, i, rows, currentRow, currentCell, inQuotes, srcRows, fileVars>>

NextRows == SerializeRows \/ ScanStep \/ Flush

SpecRows == InitRows /\ [][NextRows]_vars

LastRowIsOneEmptyField == srcRows[Len(srcRows)] = << <<>> >>

\* C4 as stated: parseCSVToRows of the escaped and joined rows returns
\* exactly the rows that were serialized.
C4_AsStated == pc = "done" => rows = srcRows

\* C4, amended: parseCSVToRows of the escaped and joined rows returns exactly
\* the rows that were serialized, except that a last row that is a single
\* empty field is not returned (the rows before it are).
C4_RowsReread ==
    pc = "done" =>
        rows = IF LastRowIsOneEmptyField
               THEN SubSeq(srcRows, 1, Len(srcRows) - 1)
               ELSE srcRows

\* a field with a double quote and a comma, then a last row of one empty field
C4_Witness ==
    /\ pc = "done"
    /\ srcRows = << << <<DQ, COMMA>> >>, << <<>> >> >>
    /\ rows = << << <<DQ, COMMA>> >> >>

-----------------------------------------------------------------------------
(* A table downloaded and the file imported again                          *)

MaxRows == 2
MaxTables == 2

\* fields: empty, plain, white space only, white space around, with the
\* characters the serializer must quote, and with the marker of a title row
F_EMPTY == <<>>
F_A == <<"a">>
F_BLANK == <<SP, LF>>
F_PADDED == <<SP, "a", LF>>
F_QUOTED == <<"a", DQ, COMMA, LF, DQ, DQ, CR, "b">>
F_PREFIXED == MARKER_PREFIX \o <<"a">>
F_MARKER == MARKER_PREFIX \o <<"a", SP>> \o MARKER_SUFFIX

RowSamples ==
    { <<>>, <<F_EMPTY>>, <<F_A>>, <<F_PADDED>>,
      <<F_EMPTY, F_EMPTY>>, <<F_BLANK, F_EMPTY>>, <<F_A, F_EMPTY>>,
      <<F_EMPTY, F_QUOTED>>, <<F_QUOTED, F_PADDED>>, <<F_A, F_A, F_A>>,
      <<F_PREFIXED, F_A>>, <<F_MARKER>>, <<F_A, F_MARKER>> }

TITLE == <<"t", ".", "a">>

TableInputs ==
    {[title |-> TITLE, columns |-> h, rows |-> rs] :
        h \in RowSamples, rs \in SeqsUpTo(RowSamples, MaxRows)}

NotParsing ==
    /\ csvText = <<>>
    /\ i = ParseStart.i
    /\ rows = ParseStart.rows
    /\ currentRow = ParseStart.currentRow
    /\ currentCell = ParseStart.currentCell
    /\ inQuotes = ParseStart.inQuotes
    /\ srcRows = <<>>

InitTable ==
    /\ pc = "table"
    /\ srcTables \in {<<t>> : t \in TableInputs}
    /\ download = [name |-> <<>>, text |-> <<>>]
    /\ detectedTables = <<>>
    /\ reexported = <<>>
    /\ NotParsing
    /\ NoApp

\* the download button of a table
DownloadCSV ==
    /\ pc = "table"
    /\ download' = downloadCSV(srcTables[1])
    /\ pc' = "file"
    /\ UNCHANGED <<appVars, csvText, i, rows, currentRow, currentCell, inQuotes, srcRows,
                   srcTables, detectedTables, reexported>>

\* handleFileChange and reader.onload for the downloaded file
ImportFile ==
    /\ pc = "file"
    /\ detectedTables' =
           DetectTables(readAsText(download.text), FileNameOf(download.name))
    /\ pc' = "imported"
    /\ UNCHANGED <<appVars, csvText, i, rows, currentRow, currentCell, inQuotes, srcRows,
                   srcTables, download, reexported>>

\* the download button of every imported table
DownloadImported ==
    /\ pc = "imported"
    /\ reexported' = [k \in 1..Len(detectedTables) |-> downloadCSV(detectedTables[k]).text]
    /\ pc' = "reexported"
    /\ UNCHANGED <<appVars, csvText, i, rows, currentRow, currentCell, inQuotes, srcRows,
                   srcTables, download, detectedTables>>

NextTable == DownloadCSV \/ ImportFile \/ DownloadImported

SpecTable == InitTable /\ [][NextTable]_vars

\* the data rows the import keeps, or the one row of empty strings
KeptRows(t) ==
    IF SelectSeq(t.rows, HasContent) = <<>> THEN <<EmptyRow(Len(t.columns))>>
    ELSE SelectSeq(t.rows, HasContent)

\* no first field of the header row or of a data row starts, trimmed, with
\* the marker prefix
NoPrefixedRow(t) ==
    /\ ~StartsWith(FirstCellContent(t.columns), MARKER_PREFIX)
    /\ \A r \in 1..Len(t.rows) : ~StartsWith(FirstCellContent(t.rows[r]), MARKER_PREFIX)

Trimmed(row) == \A k \in 1..Len(row) : Trim(row[k]) = row[k]

\* C1 as stated: the table exported by downloadCSV and imported with its
\* title as fallback title comes back as one table with the same title,
\* headers and data rows, a table without data rows getting one row of
\* empty strings.
C1_AsStated ==
    pc = "imported" =>
        /\ Len(detectedTables) = 1
        /\ detectedTables[1].title = srcTables[1].title
        /\ detectedTables[1].columns = srcTables[1].columns
        /\ detectedTables[1].rows =
               IF srcTables[1].rows = <<>>
               THEN <<EmptyRow(Len(srcTables[1].columns))>>
               ELSE srcTables[1].rows

\* C1, amended: a table with at least one column and one data row, none of
\* whose rows (header row included) has a first field that starts, trimmed,
\* with the marker prefix, comes back as one table with the same title, its
\* headers each trimmed, and those of its data rows that have a cell which
\* is not empty after trim, unchanged and in order; when there is no such
\* row it has one row of empty strings of the length of the header row.
C1_SingleRoundTrip ==
    (/\ pc = "imported"
     /\ Len(srcTables[1].columns) >= 1
     /\ Len(srcTables[1].rows) >= 1
     /\ NoPrefixedRow(srcTables[1])) =>
        /\ Len(detectedTables) = 1
        /\ detectedTables[1].title = srcTables[1].title
        /\ detectedTables[1].columns = Map(Trim, srcTables[1].columns)
        /\ detectedTables[1].rows = KeptRows(srcTables[1])

\* headers with white space around them, a blank row and a row with quotes,
\* a comma and line breaks in a cell
C1_Witness ==
    /\ pc = "imported"
    /\ srcTables[1].columns = <<F_QUOTED, F_PADDED>>
    /\ srcTables[1].rows = << <<F_BLANK, F_EMPTY>>, <<F_EMPTY, F_QUOTED>> >>
    /\ detectedTables =
           <<[title |-> TITLE, columns |-> <<F_QUOTED, F_A>>,
              rows |-> << <<F_EMPTY, F_QUOTED>> >>]>>

\* C3 as stated: serializing a table, importing the text and serializing the
\* imported table gives the text of serializing the table.
C3_AsStated == pc = "reexported" => reexported = <<download.text>>

\* the only data row is one empty string for every header
OneEmptyRow(t) == t.rows = <<EmptyRow(Len(t.columns))>>

\* C3, amended: serializing, importing and serializing again gives the same
\* text for every table with at least one column and one data row whose
\* headers have no white space at either end, whose data rows each have a
\* cell that is not empty after trim (or whose only data row is one empty
\* string per header), and none of whose rows has a first field that
\* starts, trimmed, with the marker prefix.
C3_Idempotent ==
    (/\ pc = "reexported"
     /\ Len(srcTables[1].columns) >= 1
     /\ Len(srcTables[1].rows) >= 1
     /\ Trimmed(srcTables[1].columns)
     /\ \/ \A r \in 1..Len(srcTables[1].rows) : HasContent(srcTables[1].rows[r])
        \/ OneEmptyRow(srcTables[1])
     /\ NoPrefixedRow(srcTables[1])) =>
        reexported = <<download.text>>

\* fields with quotes, a comma and line breaks, serialized twice
C3_Witness ==
    /\ pc = "reexported"
    /\ srcTables[1].columns = <<F_EMPTY, F_QUOTED>>
    /\ srcTables[1].rows = << <<F_EMPTY, F_QUOTED>>, <<F_A, F_A, F_A>> >>
    /\ reexported = <<download.text>>

\* the field between two double quotes, each double quote in it twice
QuotedField(field) ==
    <<DQ>> \o Concat([k \in 1..Len(field) |->
                         IF field[k] = DQ THEN <<DQ, DQ>> ELSE <<field[k]>>])
           \o <<DQ>>

\* the quoted fields of the row with a comma before each but the first
QuotedLine(row) ==
    Concat([k \in 1..Len(row) |->
               (IF k = 1 THEN <<>> ELSE <<COMMA>>) \o QuotedField(row[k])])

\* C19: every header and every cell is written between double quotes,
\* whether or not it holds a delimiter, with each double quote in it
\* doubled; the text of the single-table export is the byte-order mark, the
\* header row, then each data row in order, with ',' between the fields of
\* a row and one LF before each data row, and nothing after the last row.
C19_SingleExport ==
    pc = "file" =>
        download.text =
            <<BOM>> \o QuotedLine(srcTables[1].columns)
                    \o Concat([r \in 1..Len(srcTables[1].rows) |->
                                  <<LF>> \o QuotedLine(srcTables[1].rows[r])])

\* the headers a and '' and a row with an empty cell and a cell that holds
\* double quotes, a comma, LF and CR
C19_Witness ==
    /\ pc = "file"
    /\ srcTables[1].columns = <<F_A, F_EMPTY>>
    /\ srcTables[1].rows = << <<F_EMPTY, F_QUOTED>> >>
    /\ download.text =
           <<BOM, DQ, "a", DQ, COMMA, DQ, DQ, LF,
             DQ, DQ, COMMA,
             DQ, "a", DQ, DQ, COMMA, LF, DQ, DQ, DQ, DQ, CR, "b", DQ>>

-----------------------------------------------------------------------------
(* A page exported and the file imported again                             *)

PAGE_NAME == <<"p">>

PageTableSamples ==
    { [title |-> <<"a">>, columns |-> <<F_A>>, rows |-> << <<F_A>> >>],
      [title |-> <<>>, columns |-> <<F_A, F_A>>,
       rows |-> << <<F_EMPTY, F_EMPTY>> >>],
      [title |-> <<"a", SP, "b">>, columns |-> <<F_PADDED, F_QUOTED>>,
       rows |-> << <<F_QUOTED, F_EMPTY>>, <<F_BLANK, F_EMPTY>>, <<F_A>> >>],
      [title |-> <<"a">>, columns |-> <<F_EMPTY>>,
       rows |-> << <<F_A>>, <<F_QUOTED>> >>],
      [title |-> <<"a">>, columns |-> <<>>, rows |-> << <<>> >>],
      [title |-> <<"a", "<", "<", "<", "b">>, columns |-> <<F_A>>,
       rows |-> << <<F_QUOTED>> >>],
      [title |-> <<SP, "a">>, columns |-> <<F_A>>, rows |-> << <<F_A>> >>],
      [title |-> <<"a", LF, "b">>, columns |-> <<F_EMPTY, F_A>>,
       rows |-> << <<F_A, F_A, F_A>> >>],
      [title |-> MARKER_PREFIX \o <<"a">>, columns |-> <<F_PREFIXED>>,
       rows |-> << <<F_PREFIXED, F_A>>, <<F_A, F_MARKER>> >>],
      [title |-> <<"a">>, columns |-> <<F_A>>,
       rows |-> << <<F_MARKER>>, <<F_A>> >>],
      [title |-> <<"b">>, columns |-> <<F_A>>, rows |-> <<>>] }

InitPage ==
    /\ pc = "page"
    /\ srcTables \in SeqsUpTo(PageTableSamples, MaxTables)
    /\ download = [name |-> <<>>, text |-> <<>>]
    /\ detectedTables = <<>>
    /\ reexported = <<>>
    /\ NotParsing
    /\ NoApp

\* the export button of the page; a page without tables exports nothing
ExportAll ==
    /\ pc = "page"
    /\ Len(srcTables) # 0
    /\ download' = exportAllTablesOnPage(PAGE_NAME, srcTables)
    /\ pc' = "file"
    /\ UNCHANGED <<appVars, csvText, i, rows, currentRow, currentCell, inQuotes, srcRows,
                   srcTables, detectedTables, reexported>>

NextPage == ExportAll \/ ImportFile

SpecPage == InitPage /\ [][NextPage]_vars

\* C2 as stated: the tables of a page exported by exportAllTablesOnPage and
\* imported come back as many, in order, each with the same title, headers
\* and data rows.
C2_AsStated ==
    pc = "imported" =>
        /\ Len(detectedTables) = Len(srcTables)
        /\ \A k \in 1..Len(srcTables) :
              /\ detectedTables[k].title = srcTables[k].title
              /\ detectedTables[k].columns = srcTables[k].columns
              /\ detectedTables[k].rows = srcTables[k].rows

\* no first field of the header row or of a data row is, trimmed, a marker:
\* the prefix at its start and the suffix at its end
NoMarkerRow(t) ==
    \A r \in {t.columns} \cup {t.rows[k] : k \in 1..Len(t.rows)} :
        ~(/\ StartsWith(FirstCellContent(r), MARKER_PREFIX)
          /\ EndsWith(FirstCellContent(r), MARKER_SUFFIX))

\* a table the multi-table format carries
Exportable(t) ==
    /\ Trim(t.title) = t.title
    /\ Occurrences(t.title, MARKER_SUFFIX) = {}
    /\ HasContent(t.columns)
    /\ NoMarkerRow(t)

\* C2, amended: when every table of the page has a title without white
\* space at either end and without '<<<', a header that is not empty after
\* trim, and no row (header row included) whose first field is, trimmed, a
\* marker (prefix at its start, '<<<' at its end), the import yields as many
\* tables in the same order, each with the same title, the headers each
\* trimmed, and the data rows that have a cell which is not empty after trim,
\* unchanged and in order, or one row of empty strings of the length of the
\* header row when there is none.
C2_PageRoundTrip ==
    (/\ pc = "imported"
     /\ \A k \in 1..Len(srcTables) : Exportable(srcTables[k])) =>
        /\ Len(detectedTables) = Len(srcTables)
        /\ \A k \in 1..Len(srcTables) :
              /\ detectedTables[k].title = srcTables[k].title
              /\ detectedTables[k].columns = Map(Trim, srcTables[k].columns)
              /\ detectedTables[k].rows = KeptRows(srcTables[k])

\* two tables, the first with padded headers, quoted cells and a blank row
C2_Witness ==
    /\ pc = "imported"
    /\ Len(srcTables) = 2
    /\ srcTables[1].title = <<"a", SP, "b">>
    /\ srcTables[2].title = MARKER_PREFIX \o <<"a">>
    /\ Len(detectedTables) = 2
    /\ detectedTables[1].rows = << <<F_QUOTED, F_EMPTY>>, <<F_A>> >>
    /\ detectedTables[2].title = srcTables[2].title

\* the sentinel row of a table: the one quoted field '>>> 表格：title <<<'
SentinelLine(title) ==
    QuotedField(<<">", ">", ">", SP, "U8868", "U683C", "UFF1A">> \o title
                \o <<SP, "<", "<", "<">>)

\* the lines of one table: sentinel row, header row, then each data row
TableLines(table) ==
    SentinelLine(table.title) \o <<LF>> \o QuotedLine(table.columns)
        \o Concat([r \in 1..Len(table.rows) |->
                      <<LF>> \o QuotedLine(table.rows[r])])

\* as the workspace keeps them, every table has at least one data row
EveryTableHasRow == \A t \in 1..Len(srcTables) : Len(srcTables[t].rows) >= 1

\* C20: the text of the page export is the byte-order mark and then, for
\* each table of the page in page order, the sentinel row whose only field
\* is the quoted '>>> 表格：' + title + ' <<<', the header row and the data
\* rows, with exactly two blank lines (three LF) between the last row of a
\* table and the sentinel row of the next; a page with zero tables exports
\* nothing.
C20_PageExport ==
    /\ Len(srcTables) = 0 =>
           pc = "page" /\ download = [name |-> <<>>, text |-> <<>>]
    /\ pc = "file" /\ EveryTableHasRow =>
           download.text =
               <<BOM>> \o Concat([t \in 1..Len(srcTables) |->
                                     (IF t = 1 THEN <<>> ELSE <<LF, LF, LF>>)
                                         \o TableLines(srcTables[t])])

\* a page of two tables, the first with no column and one row of no cell,
\* exported: its header row and its data row are empty lines, two blank
\* lines follow, then the second table
C20_Witness ==
    /\ pc = "file"
    /\ srcTables =
           << [title |-> <<"a">>, columns |-> <<>>, rows |-> << <<>> >>],
              [title |-> <<"a">>, columns |-> <<F_A>>, rows |-> << <<F_A>> >>] >>
    /\ download.text =
           <<BOM, DQ, ">", ">", ">", SP, "U8868", "U683C", "UFF1A", "a", SP,
             "<", "<", "<", DQ, LF, LF,
             LF, LF, LF,
             DQ, ">", ">", ">", SP, "U8868", "U683C", "UFF1A", "a", SP,
             "<", "<", "<", DQ, LF, DQ, "a", DQ, LF, DQ, "a", DQ>>

-----------------------------------------------------------------------------
(* The state of App (src/App.tsx with the edit mode of its later version)  *)
(* and of the tables TableEditor edits.  A table of a page is a record     *)
(* [id, title, columns, rows]; rows is a sequence of references to row     *)
(* arrays and heap gives the contents of every row array that is in use,   *)
(* so that a write into a row array shows in every table that holds it.    *)

\* '預設工作區', '新工作區 ', '未命名表格', '標題 1' to '標題 3', '新欄位', ' (副本)'
DEFAULT_PAGE_NAME == <<"U9810", "U8A2D", "U5DE5", "U4F5C", "U5340">>
NEW_PAGE_PREFIX == <<"U65B0", "U5DE5", "U4F5C", "U5340", SP>>
NEW_TABLE_TITLE == <<"U672A", "U547D", "U540D", "U8868", "U683C">>
NEW_TABLE_COLUMNS ==
    << <<"U6A19", "U984C", SP, "1">>, <<"U6A19", "U984C", SP, "2">>,
       <<"U6A19", "U984C", SP, "3">> >>
NEW_TABLE_ROW == << <<>>, <<>>, <<>> >>
NEW_COLUMN == <<"U65B0", "U6B04", "U4F4D">>
COPY_SUFFIX == <<SP, "(", "U526F", "U672C", ")">>

\* the decimal digits of a number, as a template literal writes it
RECURSIVE NumberText(_)
NumberText(n) ==
    LET digit(d) == <<"0", "1", "2", "3", "4", "5", "6", "7", "8", "9">>[d + 1]
    IN  IF n < 10 THEN <<digit(n)>>
        ELSE Append(NumberText(n \div 10), digit(n % 10))

Range(s) == {s[k] : k \in 1..Len(s)}

\* the references of n new arrays: none of them is in use in h
FreshRefs(h, n) ==
    LET free == (1..(Cardinality(DOMAIN h) + n)) \ DOMAIN h
    IN  [k \in 1..n |-> CHOOSE r \in free : Cardinality({q \in free : q < r}) = k - 1]

\* h with the arrays refs holding the contents vals
Store(h, refs, vals) ==
    [r \in DOMAIN h \cup Range(refs) |->
        IF r \in Range(refs)
        THEN vals[CHOOSE k \in 1..Len(refs) : refs[k] = r]
        ELSE h[r]]

\* the row arrays the tables of the pages pgs hold
RowRefs(pgs) ==
    UNION {UNION {Range(pgs[p].tables[t].rows) : t \in 1..Len(pgs[p].tables)} :
               p \in 1..Len(pgs)}

\* what is left of h when only the pages pgs refer to it
Collect(h, pgs) == [r \in RowRefs(pgs) |-> h[r]]

\* the tables tvals, given with the contents of their rows, as tables whose
\* rows are new arrays of the heap
RECURSIVE Materialize(_, _, _)
Materialize(h, tvals, done) ==
    IF tvals = <<>> THEN [heap |-> h, tables |-> done]
    ELSE LET t == Head(tvals)
             refs == FreshRefs(h, Len(t.rows))
         IN  Materialize(Store(h, refs, t.rows), Tail(tvals),
                         Append(done, [t EXCEPT !.rows = refs]))

\* the contents of the rows of table t in heap h
RowsIn(h, t) == [k \in 1..Len(t.rows) |-> h[t.rows[k]]]

\* table t with the contents of its rows in heap h
TableValue(h, t) ==
    [id |-> t.id, title |-> t.title, columns |-> t.columns,
     rows |-> RowsIn(h, t)]

\* the values of the tables of page p of pgs, in order
TableValues(h, pgs, p) ==
    [j \in 1..Len(pgs[p].tables) |-> TableValue(h, pgs[p].tables[j])]

\* the pages with the values of their tables
PageValues(h, pgs) ==
    [p \in 1..Len(pgs) |->
        [id |-> pgs[p].id, name |-> pgs[p].name,
         tables |-> TableValues(h, pgs, p)]]

\* pages.find(p => p.id === activePageId) || null, as the pages found:
\* none or one
activePage == SelectSeq(pages, LAMBDA p : p.id = activePageId)

\* the tables a TableEditor is rendered for, with an empty search query
filteredTables == IF activePage = <<>> THEN <<>> ELSE activePage[1].tables

\* every table of every page
AllTables ==
    UNION {Range(pages[p].tables) : p \in 1..Len(pages)}

-----------------------------------------------------------------------------
(* The handlers of App                                                     *)

MaxSteps == 3

\* the values typed into a cell, a header, a title and a page name
CellValues == {<<"x">>}
HeaderValues == {<<"h">>}
TitleValues == {<<"t">>}
PageNames == {<<"n">>}

STORED_PAGES ==
    << [id |-> 1, name |-> <<"s">>,
        tables |-> << [id |-> 2, title |-> <<"s">>,
                       columns |-> << <<"a">>, <<"b">> >>,
                       rows |-> << << <<"x">>, <<>> >> >>] >>] >>

\* two stored pages without tables
STORED_TWO ==
    << [id |-> 1, name |-> <<"s">>, tables |-> <<>>],
       [id |-> 2, name |-> <<"u">>, tables |-> <<>>] >>

\* null and {} as elements of a stored array
NULL_ELEMENT == [null |-> TRUE]
EMPTY_OBJECT == [object |-> TRUE]

\* what localStorage holds under STORAGE_KEY when App mounts: nothing, text
\* that is not JSON, JSON that is not an array, the arrays [], [null] and
\* [{}], or the pages of an earlier session
StoredValues ==
    { NO_ITEM,
      [kind |-> "corrupt", pages |-> <<>>],
      [kind |-> "notArray", pages |-> <<>>],
      [kind |-> "array", pages |-> <<>>],
      [kind |-> "array", pages |-> <<NULL_ELEMENT>>],
      [kind |-> "array", pages |-> <<EMPTY_OBJECT>>],
      [kind |-> "array", pages |-> STORED_PAGES],
      [kind |-> "array", pages |-> STORED_TWO] }

\* the files chosen in the file dialog: a table, a table with a short data
\* row, two tables in the multi-table format, an empty file, a file the
\* parser finds no row in, and a file with a row that has the marker prefix
\* and no marker row
FileSamples ==
    { [name |-> <<"f", ".", "c">>, blob |-> <<"a", COMMA, "b", LF, "x", COMMA, "y">>],
      [name |-> <<"g", ".", "c">>, blob |-> <<"a", COMMA, "b", LF, "x">>],
      [name |-> <<"m", ".", "c">>,
       blob |-> <<BOM>> \o MARKER_PREFIX \o <<"t", SP>> \o MARKER_SUFFIX
                  \o <<LF, "a", LF, "x", LF>>
                  \o MARKER_PREFIX \o <<"u", SP>> \o MARKER_SUFFIX \o <<LF, "b">>],
      [name |-> <<"e", ".", "c">>, blob |-> <<>>],
      [name |-> <<"q", ".", "c">>, blob |-> <<DQ, DQ>>],
      [name |-> <<"v", ".", "c">>, blob |-> MARKER_PREFIX \o <<"v">>] }

\* no export, import round trip or parse is under way while App runs
IdleParse ==
    UNCHANGED <<pc, csvText, i, rows, currentRow, currentCell, inQuotes,
                srcRows, srcTables, detectedTables, reexported>>

\* nor is the value of the file input changed
Idle == IdleParse /\ UNCHANGED download

Ready == pc = "ready" /\ steps < MaxSteps

Tick == steps' = steps + 1

\* a handler call that returns at its guard
NoEffect ==
    /\ Tick
    /\ UNCHANGED <<pages, heap, activePageId, isEditMode, reads, nextId, storage>>
    /\ Idle

Init ==
    /\ pc = "mount"
    /\ NotParsing
    /\ NoFile
    /\ NoPages
    /\ storage \in StoredValues

\* the effect that runs after every render in which pages has changed:
\* localStorage.setItem(STORAGE_KEY, JSON.stringify(pages))
SaveEffect ==
    storage' = IF Len(pages') > 0
               THEN [kind |-> "array", pages |-> PageValues(heap', pages')]
               ELSE storage

\* createDefaultPage that leaves activePageId as it is
createDefaultPage_KeepsActive ==
    /\ pages' = << [id |-> nextId, name |-> DEFAULT_PAGE_NAME, tables |-> <<>>] >>
    /\ UNCHANGED activePageId
    /\ nextId' = nextId + 1
    /\ heap' = <<>>

\* createDefaultPage: one page without tables, which is the active page
createDefaultPage ==
    /\ pages' = << [id |-> nextId, name |-> DEFAULT_PAGE_NAME, tables |-> <<>>] >>
    /\ activePageId' = nextId
    /\ nextId' = nextId + 1
    /\ heap' = <<>>

\* the pages pvals, given with the contents of the rows of their tables, as
\* pages whose tables have new row arrays of the heap
RECURSIVE MaterializePages(_, _, _)
MaterializePages(h, pvals, done) ==
    IF pvals = <<>> THEN [heap |-> h, pages |-> done]
    ELSE LET m == Materialize(h, Head(pvals).tables, <<>>)
         IN  MaterializePages(m.heap, Tail(pvals),
                              Append(done, [Head(pvals) EXCEPT !.tables = m.tables]))

\* the number of identifiers the pages pvals and their tables hold
RECURSIVE IdCount(_)
IdCount(pvals) ==
    IF pvals = <<>> THEN 0
    ELSE 1 + Len(Head(pvals).tables) + IdCount(Tail(pvals))

\* the effect that runs once when App mounts, and the render that follows.
\* parsedPages[0].id of an array whose first element is null throws after
\* setPages(parsedPages), and the catch block calls createDefaultPage,
\* whose setPages is the later one.  With [{}] the identifier of the first
\* element is undefined, which is the identifier of that element for
\* pages.find, so activePage is {} and activePage.tables.length throws in
\* the render: React unmounts App.  generateId never returns an identifier
\* the stored pages hold.
LoadEffect ==
    /\ pc = "mount"
    /\ LET parsedPages == storage.pages
       IN  IF storage.kind = "array" /\ Len(parsedPages) > 0
              /\ parsedPages[1] # NULL_ELEMENT
           THEN IF parsedPages[1] = EMPTY_OBJECT
                THEN /\ pc' = "error"
                     /\ UNCHANGED <<pages, heap, activePageId, nextId, storage>>
                ELSE LET m == MaterializePages(<<>>, parsedPages, <<>>)
                     IN  /\ pc' = "ready"
                         /\ pages' = m.pages
                         /\ heap' = m.heap
                         /\ activePageId' = parsedPages[1].id
                         /\ nextId' = nextId + IdCount(parsedPages)
                         /\ SaveEffect
           ELSE /\ pc' = "ready"
                /\ createDefaultPage
                /\ SaveEffect
    /\ UNCHANGED <<isEditMode, reads, steps, csvText, i, rows, currentRow,
                   currentCell, inQuotes, srcRows, fileVars>>

\* a click on the tab of a page that is not the active one
setActivePageId ==
    /\ Ready
    /\ \E k \in 1..Len(pages) :
          /\ pages[k].id # activePageId
          /\ activePageId' = pages[k].id
    /\ Tick
    /\ UNCHANGED <<pages, heap, isEditMode, reads, nextId>>
    /\ Idle
    /\ SaveEffect

\* the edit mode switch
setIsEditMode ==
    /\ Ready
    /\ isEditMode' = ~isEditMode
    /\ Tick
    /\ UNCHANGED <<pages, heap, activePageId, reads, nextId>>
    /\ Idle
    /\ SaveEffect

addNewPage ==
    /\ Ready
    /\ IF ~isEditMode THEN NoEffect
       ELSE /\ pages' = Append(pages,
                   [id |-> nextId,
                    name |-> NEW_PAGE_PREFIX \o NumberText(Len(pages) + 1),
                    tables |-> <<>>])
            /\ activePageId' = nextId
            /\ nextId' = nextId + 1
            /\ Tick
            /\ UNCHANGED <<heap, isEditMode, reads>>
            /\ Idle
            /\ SaveEffect

\* the name input of a page tab, which is rendered in edit mode only
renamePage ==
    /\ Ready
    /\ isEditMode
    /\ \E k \in 1..Len(pages), newName \in PageNames :
          pages' = [j \in 1..Len(pages) |->
                       IF pages[j].id = pages[k].id
                       THEN [pages[j] EXCEPT !.name = newName] ELSE pages[j]]
    /\ Tick
    /\ UNCHANGED <<heap, activePageId, isEditMode, reads, nextId>>
    /\ Idle
    /\ SaveEffect

\* executeDeletePage that makes the first page the active one
executeDeletePage_FirstPage ==
    /\ Ready
    /\ \E deletedIndex \in 1..Len(pages) :
          LET id == pages[deletedIndex].id
              newPages == SelectSeq(pages, LAMBDA p : p.id # id)
          IN  IF Len(newPages) = 0 THEN createDefaultPage
              ELSE /\ pages' = newPages
                   /\ heap' = Collect(heap, newPages)
                   /\ activePageId' = IF activePageId = id
                                      THEN newPages[1].id
                                      ELSE activePageId
                   /\ UNCHANGED nextId
    /\ Tick
    /\ UNCHANGED <<isEditMode, reads>>
    /\ Idle
    /\ SaveEffect

\* the confirmation of the deletion of a page
executeDeletePage ==
    /\ Ready
    /\ \E deletedIndex \in 1..Len(pages) :
          LET id == pages[deletedIndex].id
              newPages == SelectSeq(pages, LAMBDA p : p.id # id)
              last == Len(newPages)
              nextIndex == IF deletedIndex < last THEN deletedIndex ELSE last
          IN  IF Len(newPages) = 0 THEN createDefaultPage
              ELSE /\ pages' = newPages
                   /\ heap' = Collect(heap, newPages)
                   /\ activePageId' = IF activePageId = id
                                      THEN newPages[IF nextIndex < 1 THEN 1 ELSE nextIndex].id
                                      ELSE activePageId
                   /\ UNCHANGED nextId
    /\ Tick
    /\ UNCHANGED <<isEditMode, reads>>
    /\ Idle
    /\ SaveEffect

\* addNewTable that does not look at the edit mode
addNewTable_Unguarded ==
    /\ Ready
    /\ IF activePageId = NULL THEN NoEffect
       ELSE LET refs == FreshRefs(heap, 1)
                newTable == [id |-> nextId, title |-> NEW_TABLE_TITLE,
                             columns |-> NEW_TABLE_COLUMNS, rows |-> refs]
            IN  /\ pages' = [k \in 1..Len(pages) |->
                               IF pages[k].id = activePageId
                               THEN [pages[k] EXCEPT !.tables = <<newTable>> \o @]
                               ELSE pages[k]]
                /\ heap' = Store(heap, refs, <<NEW_TABLE_ROW>>)
                /\ nextId' = nextId + 1
                /\ Tick
                /\ UNCHANGED <<activePageId, isEditMode, reads>>
                /\ Idle
                /\ SaveEffect

addNewTable ==
    /\ Ready
    /\ IF activePageId = NULL \/ ~isEditMode THEN NoEffect
       ELSE LET refs == FreshRefs(heap, 1)
                newTable == [id |-> nextId, title |-> NEW_TABLE_TITLE,
                             columns |-> NEW_TABLE_COLUMNS, rows |-> refs]
            IN  /\ pages' = [k \in 1..Len(pages) |->
                               IF pages[k].id = activePageId
                               THEN [pages[k] EXCEPT !.tables = <<newTable>> \o @]
                               ELSE pages[k]]
                /\ heap' = Store(heap, refs, <<NEW_TABLE_ROW>>)
                /\ nextId' = nextId + 1
                /\ Tick
                /\ UNCHANGED <<activePageId, isEditMode, reads>>
                /\ Idle
                /\ SaveEffect

\* updateTable that looks for the table in every page
updateTable_AnyPage(updatedTable) ==
    IF ~isEditMode THEN pages
    ELSE [k \in 1..Len(pages) |->
            [pages[k] EXCEPT !.tables =
                [j \in 1..Len(@) |->
                    IF @[j].id = updatedTable.id THEN updatedTable ELSE @[j]]]]

\* updateTable: the pages with updatedTable in the place of the table of
\* the active page that has its identifier
updateTable(updatedTable) ==
    IF ~isEditMode THEN pages
    ELSE [k \in 1..Len(pages) |->
            IF pages[k].id = activePageId
            THEN [pages[k] EXCEPT !.tables =
                     [j \in 1..Len(@) |->
                         IF @[j].id = updatedTable.id THEN updatedTable ELSE @[j]]]
            ELSE pages[k]]

\* onUpdate(updatedTable) at the end of a handler of TableEditor that has
\* left the row arrays as h has them
onUpdate(updatedTable, h) ==
    LET pgs == updateTable(updatedTable)
    IN  /\ pages' = pgs
        /\ heap' = Collect(h, pgs)
        /\ Tick
        /\ UNCHANGED <<activePageId, isEditMode, reads, nextId>>
        /\ Idle
        /\ SaveEffect

\* the updater of deleteTable(id): the pages without the tables of the
\* active page that have the identifier
WithoutTable(id) ==
    [k \in 1..Len(pages) |->
        IF pages[k].id = activePageId
        THEN [pages[k] EXCEPT !.tables = SelectSeq(@, LAMBDA x : x.id # id)]
        ELSE pages[k]]

deleteTable ==
    /\ Ready
    /\ \E t \in 1..Len(filteredTables) :
          LET id == filteredTables[t].id
              pgs == WithoutTable(id)
          IN  IF ~isEditMode THEN NoEffect
              ELSE /\ pages' = pgs
                   /\ heap' = Collect(heap, pgs)
                   /\ Tick
                   /\ UNCHANGED <<activePageId, isEditMode, reads, nextId>>
                   /\ Idle
                   /\ SaveEffect

\* onDuplicate with a copy that holds the row arrays of the original
onDuplicate_SharesRows ==
    /\ Ready
    /\ isEditMode
    /\ \E t \in 1..Len(filteredTables) :
          LET table == filteredTables[t]
              newTable == [id |-> nextId, title |-> table.title \o COPY_SUFFIX,
                           columns |-> table.columns, rows |-> table.rows]
          IN  /\ pages' = [k \in 1..Len(pages) |->
                             IF pages[k].id = activePageId
                             THEN [pages[k] EXCEPT !.tables = Append(@, newTable)]
                             ELSE pages[k]]
              /\ heap' = heap
    /\ nextId' = nextId + 1
    /\ Tick
    /\ UNCHANGED <<activePageId, isEditMode, reads>>
    /\ Idle
    /\ SaveEffect

\* the duplicate button of a table, which is rendered in edit mode only;
\* JSON.parse(JSON.stringify(table)) makes new row arrays
onDuplicate ==
    /\ Ready
    /\ isEditMode
    /\ \E t \in 1..Len(filteredTables) :
          LET table == filteredTables[t]
              refs == FreshRefs(heap, Len(table.rows))
              newTable == [id |-> nextId, title |-> table.title \o COPY_SUFFIX,
                           columns |-> table.columns, rows |-> refs]
          IN  /\ pages' = [k \in 1..Len(pages) |->
                             IF pages[k].id = activePageId
                             THEN [pages[k] EXCEPT !.tables = Append(@, newTable)]
                             ELSE pages[k]]
              /\ heap' = Store(heap, refs, RowsIn(heap, table))
    /\ nextId' = nextId + 1
    /\ Tick
    /\ UNCHANGED <<activePageId, isEditMode, reads>>
    /\ Idle
    /\ SaveEffect

-----------------------------------------------------------------------------
(* The handlers of TableEditor (src/components/TableEditor.tsx)            *)

\* row.filter((_, i) => i !== index), with a 1-based index
WithoutIndex(row, index) ==
    [k \in 1..(Len(row) - (IF index <= Len(row) THEN 1 ELSE 0)) |->
        IF k < index THEN row[k] ELSE row[k + 1]]

\* addRow with a row one field longer than the header row
addRow_TooLong ==
    /\ Ready
    /\ \E t \in 1..Len(filteredTables) :
          LET table == filteredTables[t]
              refs == FreshRefs(heap, 1)
          IN  IF ~isEditMode THEN NoEffect
              ELSE onUpdate([table EXCEPT !.rows = @ \o refs],
                            Store(heap, refs, <<EmptyRow(Len(table.columns) + 1)>>))

addRow ==
    /\ Ready
    /\ \E t \in 1..Len(filteredTables) :
          LET table == filteredTables[t]
              refs == FreshRefs(heap, 1)
          IN  IF ~isEditMode THEN NoEffect
              ELSE onUpdate([table EXCEPT !.rows = @ \o refs],
                            Store(heap, refs, <<EmptyRow(Len(table.columns))>>))

\* addColumn that adds the header and leaves the rows as they are
addColumn_HeaderOnly ==
    /\ Ready
    /\ \E t \in 1..Len(filteredTables) :
          LET table == filteredTables[t]
          IN  IF ~isEditMode THEN NoEffect
              ELSE onUpdate([table EXCEPT !.columns = Append(@, NEW_COLUMN)], heap)

addColumn ==
    /\ Ready
    /\ \E t \in 1..Len(filteredTables) :
          LET table == filteredTables[t]
              refs == FreshRefs(heap, Len(table.rows))
              newRows == [k \in 1..Len(table.rows) |->
                             Append(heap[table.rows[k]], <<>>)]
          IN  IF ~isEditMode THEN NoEffect
              ELSE onUpdate([table EXCEPT !.columns = Append(@, NEW_COLUMN),
                                          !.rows = refs],
                            Store(heap, refs, newRows))

removeRow ==
    /\ Ready
    /\ \E t \in 1..Len(filteredTables) :
          \E index \in 1..Len(filteredTables[t].rows) :
              LET table == filteredTables[t]
                  refs == FreshRefs(heap, 1)
              IN  IF ~isEditMode THEN NoEffect
                  ELSE IF Len(table.rows) <= 1
                  THEN onUpdate([table EXCEPT !.rows = refs],
                                Store(heap, refs, <<EmptyRow(Len(table.columns))>>))
                  ELSE onUpdate([table EXCEPT !.rows = WithoutIndex(@, index)], heap)

\* removeColumn that also removes the only column of a table
removeColumn_LastColumn ==
    /\ Ready
    /\ \E t \in 1..Len(filteredTables) :
          \E index \in 1..Len(filteredTables[t].columns) :
              LET table == filteredTables[t]
                  refs == FreshRefs(heap, Len(table.rows))
                  newRows == [k \in 1..Len(table.rows) |->
                                 WithoutIndex(heap[table.rows[k]], index)]
              IN  IF ~isEditMode THEN NoEffect
                  ELSE onUpdate([table EXCEPT !.columns = WithoutIndex(@, index),
                                              !.rows = refs],
                                Store(heap, refs, newRows))

removeColumn ==
    /\ Ready
    /\ \E t \in 1..Len(filteredTables) :
          \E index \in 1..Len(filteredTables[t].columns) :
              LET table == filteredTables[t]
                  refs == FreshRefs(heap, Len(table.rows))
                  newRows == [k \in 1..Len(table.rows) |->
                                 WithoutIndex(heap[table.rows[k]], index)]
              IN  IF ~isEditMode \/ Len(table.columns) <= 1 THEN NoEffect
                  ELSE onUpdate([table EXCEPT !.columns = WithoutIndex(@, index),
                                              !.rows = refs],
                                Store(heap, refs, newRows))

\* newRows = [...table.rows] is a new array of the same row arrays, and
\* newRows[rowIndex][colIndex] = value writes into the row array itself
updateCell ==
    /\ Ready
    /\ \E t \in 1..Len(filteredTables) :
          \E rowIndex \in 1..Len(filteredTables[t].rows) :
              \E colIndex \in 1..Len(heap[filteredTables[t].rows[rowIndex]]),
                 value \in CellValues :
                  LET table == filteredTables[t]
                      newRows == table.rows
                  IN  IF ~isEditMode THEN NoEffect
                      ELSE onUpdate([table EXCEPT !.rows = newRows],
                                    [heap EXCEPT ![newRows[rowIndex]][colIndex] = value])

updateHeader ==
    /\ Ready
    /\ \E t \in 1..Len(filteredTables) :
          \E colIndex \in 1..Len(filteredTables[t].columns), value \in HeaderValues :
              LET table == filteredTables[t]
                  newColumns == [table.columns EXCEPT ![colIndex] = value]
              IN  IF ~isEditMode THEN NoEffect
                  ELSE onUpdate([table EXCEPT !.columns = newColumns], heap)

\* the title cell of a table, which is read-only outside edit mode
updateTitle ==
    /\ Ready
    /\ isEditMode
    /\ \E t \in 1..Len(filteredTables), val \in TitleValues :
          onUpdate([filteredTables[t] EXCEPT !.title = val], heap)

-----------------------------------------------------------------------------
(* The import: handleFileChange and reader.onload                          *)

\* handleImportClick opens the file dialog in edit mode only; the file
\* chosen, which is the value of the file input from now on, is read for
\* the page that is active now
handleFileChange ==
    /\ Ready
    /\ isEditMode
    /\ activePageId # NULL
    /\ \E file \in FileSamples :
          /\ download' = [name |-> file.name, text |-> file.blob]
          /\ reads' = Append(reads, [activePageId |-> activePageId,
                                     fileName |-> FileNameOf(file.name),
                                     text |-> readAsText(file.blob)])
    /\ Tick
    /\ UNCHANGED <<pages, heap, activePageId, isEditMode, nextId>>
    /\ IdleParse
    /\ SaveEffect

\* Detected with one identifier for all the tables of a file
Detected_OneId(rd) ==
    LET tvals == DetectTables(rd.text, rd.fileName)
    IN  [k \in 1..Len(tvals) |->
            [id |-> nextId, title |-> tvals[k].title,
             columns |-> tvals[k].columns, rows |-> tvals[k].rows]]

\* detectedTables of the read rd, each table with its generated identifier
Detected(rd) ==
    LET tvals == DetectTables(rd.text, rd.fileName)
    IN  [k \in 1..Len(tvals) |->
            [id |-> nextId + k - 1, title |-> tvals[k].title,
             columns |-> tvals[k].columns, rows |-> tvals[k].rows]]

\* reader.onload that appends to the page that is active when the read
\* completes
onload_CurrentPage ==
    /\ Ready
    /\ \E r \in 1..Len(reads) :
          LET rd == reads[r]
              m == Materialize(heap, Detected(rd), <<>>)
              pgs == [k \in 1..Len(pages) |->
                         IF pages[k].id = activePageId
                         THEN [pages[k] EXCEPT !.tables = @ \o m.tables]
                         ELSE pages[k]]
          IN  /\ reads' = WithoutIndex(reads, r)
              /\ pages' = pgs
              /\ heap' = Collect(m.heap, pgs)
              /\ nextId' = nextId + Len(m.tables)
              /\ download' = IF rd.text = <<>> \/ parseCSVToRows(rd.text) = <<>>
                             THEN download
                             ELSE [name |-> <<>>, text |-> <<>>]
    /\ Tick
    /\ UNCHANGED <<activePageId, isEditMode>>
    /\ IdleParse
    /\ SaveEffect

\* reader.onload of one of the files being read; its last statement, which
\* the two early returns do not reach, clears the value of the file input
onload ==
    /\ Ready
    /\ \E r \in 1..Len(reads) :
          LET rd == reads[r]
              m == Materialize(heap, Detected(rd), <<>>)
              pgs == [k \in 1..Len(pages) |->
                         IF pages[k].id = rd.activePageId
                         THEN [pages[k] EXCEPT !.tables = @ \o m.tables]
                         ELSE pages[k]]
          IN  /\ reads' = WithoutIndex(reads, r)
              /\ pages' = pgs
              /\ heap' = Collect(m.heap, pgs)
              /\ nextId' = nextId + Len(m.tables)
              /\ download' = IF rd.text = <<>> \/ parseCSVToRows(rd.text) = <<>>
                             THEN download
                             ELSE [name |-> <<>>, text |-> <<>>]
    /\ Tick
    /\ UNCHANGED <<activePageId, isEditMode>>
    /\ IdleParse
    /\ SaveEffect

Next ==
    \/ LoadEffect
    \/ setActivePageId
    \/ setIsEditMode
    \/ addNewPage
    \/ renamePage
    \/ executeDeletePage
    \/ addNewTable
    \/ deleteTable
    \/ onDuplicate
    \/ addRow
    \/ addColumn
    \/ removeRow
    \/ removeColumn
    \/ updateCell
    \/ updateHeader
    \/ updateTitle
    \/ handleFileChange
    \/ onload

Spec == Init /\ [][Next]_vars

-----------------------------------------------------------------------------
(* Rectangular tables and row arrays across an edit                        *)

\* every row of table t has as many fields in heap h as t has columns
Rectangular(h, t) ==
    \A k \in 1..Len(t.rows) : Len(h[t.rows[k]]) = Len(t.columns)

AllRectangular == \A t \in AllTables : Rectangular(heap, t)

\* C5 as stated: in every state reached by new-table, import, duplicate,
\* addRow, addColumn, removeRow, removeColumn, updateCell and updateHeader
\* operations, every row of every table is as long as the table's list of
\* columns.
C5_AsStated == AllRectangular

\* the step is reader.onload for a file from which the assembler makes a
\* table with a row that is shorter or longer than its header row
RaggedImport ==
    \E r \in 1..Len(reads) :
        /\ reads' = WithoutIndex(reads, r)
        /\ \E tv \in Range(DetectTables(reads[r].text, reads[r].fileName)) :
              \E k \in 1..Len(tv.rows) : Len(tv.rows[k]) # Len(tv.columns)

\* C5, amended: when every row of every table is as long as the table's
\* list of columns, the same holds after any new-table, duplicate, addRow,
\* addColumn, removeRow, removeColumn, updateCell or updateHeader operation
\* and after any import of a file whose assembled tables have only rows of
\* the length of their header row; so it holds in every state reached from
\* the start without the import of a file with a shorter or longer row.
C5_Rectangular ==
    [][(AllRectangular /\ ~RaggedImport) => AllRectangular']_vars

\* the table imported from the file f.c after addColumn
C5_Witness ==
    \E t \in AllTables :
        /\ t.title = <<"f">>
        /\ t.columns = << <<"a">>, <<"b">>, NEW_COLUMN >>
        /\ RowsIn(heap, t) = << << <<"x">>, <<"y">>, <<>> >> >>

\* C6: no table-editing operation (addRow, addColumn, removeRow,
\* removeColumn, updateCell, updateHeader, title edit) changes the table
\* value it was given: every row array of a table of the state before the
\* step has, when it is still in use after the step, the contents it had.
C6_NoAliasing ==
    [][\A t \in AllTables : \A k \in 1..Len(t.rows) :
           t.rows[k] \in DOMAIN heap' => heap'[t.rows[k]] = heap[t.rows[k]]]_vars

-----------------------------------------------------------------------------
(* The import of files of any shape: reader.onload on texts made of lines  *)
(* that are header rows, data rows, blank rows and marker rows             *)

MaxLines == 3

\* ' a,b ', 'x', 'x,,y', '', ' ,': rows with padded fields, a short row, a
\* row with an empty field, and two rows that are blank after trim
L_HEAD == <<SP, "a", COMMA, "b", SP>>
L_SHORT == <<"x">>
L_LONG == <<"x", COMMA, COMMA, "y">>
L_EMPTY == <<>>
L_BLANK == <<SP, COMMA>>

\* marker rows: '>>> 表格：t <<<' as the export writes it, one with white
\* space around it and a second field, one whose title holds '<<<', one
\* whose title holds the prefix, and one without a title
L_MARK_T == MARKER_PREFIX \o <<"t", SP>> \o MARKER_SUFFIX
L_MARK_U == <<SP>> \o MARKER_PREFIX \o <<"u">> \o MARKER_SUFFIX \o <<SP, COMMA, "k">>
L_MARK_W == MARKER_PREFIX \o <<"w">> \o MARKER_SUFFIX \o <<"z", SP>> \o MARKER_SUFFIX
L_MARK_P == MARKER_PREFIX \o MARKER_PREFIX \o <<"p">> \o MARKER_SUFFIX
L_MARK_NONE == MARKER_PREFIX \o MARKER_SUFFIX

\* rows that have the prefix without the suffix, and the suffix without
\* the prefix
L_PREFIX == MARKER_PREFIX \o <<"v">>
L_SUFFIX == <<"s">> \o MARKER_SUFFIX

LineSamples ==
    { L_HEAD, L_SHORT, L_LONG, L_EMPTY, L_BLANK, L_MARK_T, L_MARK_U, L_MARK_W,
      L_MARK_P, L_MARK_NONE, L_PREFIX, L_SUFFIX }

\* a file name with an extension and one without
FileNames == { <<"f", ".", "c">>, <<"c">> }

ImportFiles ==
    {[name |-> n, text |-> Join(ls, <<LF>>)] :
        n \in FileNames, ls \in SeqsUpTo(LineSamples, MaxLines)}

\* a file has been chosen in the file dialog
InitImport ==
    /\ pc = "file"
    /\ download \in ImportFiles
    /\ srcTables = <<>>
    /\ detectedTables = <<>>
    /\ reexported = <<>>
    /\ NotParsing
    /\ NoApp

SpecImport == InitImport /\ [][ImportFile]_vars

\* allParsedRows of the import of the file
ParsedRows == parseCSVToRows(readAsText(download.text))

\* the first field of the row, trimmed, starts with the marker prefix
HasPrefix(row) == StartsWith(FirstCellContent(row), MARKER_PREFIX)

\* a marker row: the first field, trimmed, has the prefix at its start and
\* the suffix at its end
IsMarker(row) == HasPrefix(row) /\ EndsWith(FirstCellContent(row), MARKER_SUFFIX)

\* the positions of the marker rows among the rows parsed
MarkerPositions(parsed) == {k \in 1..Len(parsed) : IsMarker(parsed[k])}

\* the position of marker row number t
MarkerAt(parsed, t) ==
    LET at == MarkerPositions(parsed)
    IN  CHOOSE k \in at : Cardinality({j \in at : j <= k}) = t

\* the rows that have a field which is not empty after trim, among those
\* between marker row number t and the next marker row or the end
SegmentRows(parsed, t) ==
    LET first == MarkerAt(parsed, t) + 1
        last == IF t < Cardinality(MarkerPositions(parsed))
                THEN MarkerAt(parsed, t + 1) - 1 ELSE Len(parsed)
    IN  SelectSeq(SubSeq(parsed, first, last), HasContent)

\* C12: the import takes the parsed rows for a multi-table bundle exactly
\* when some row, at any position, has a first field that starts, trimmed,
\* with the marker prefix: it then makes one table per marker row, titled
\* from the marker; otherwise it makes exactly one table, titled from the
\* file name, with row 0 trimmed as its headers.
C12_ModeDetection ==
    pc = "imported" =>
        LET parsed == ParsedRows
            markers == SelectSeq(parsed, IsMarker)
        IN  parsed # <<>> =>
            IF \E k \in 1..Len(parsed) : HasPrefix(parsed[k])
            THEN /\ Len(detectedTables) = Len(markers)
                 /\ \A t \in 1..Len(markers) :
                       detectedTables[t].title =
                           extractedTitle(FirstCellContent(markers[t]))
            ELSE /\ Len(detectedTables) = 1
                 /\ detectedTables[1].title = FileNameOf(download.name)
                 /\ detectedTables[1].columns = Map(Trim, parsed[1])

\* a header row, a data row and then a marker row: a bundle of one table
\* without headers, with the rows before the marker left out
C12_Witness ==
    /\ pc = "imported"
    /\ download.text = Join(<<L_HEAD, L_SHORT, L_MARK_T>>, <<LF>>)
    /\ Len(detectedTables) = 1
    /\ detectedTables[1].title = <<"t">>
    /\ detectedTables[1].columns = <<>>

\* C13: in a bundle one table is made per marker row, in the order of the
\* marker rows, and the rows before the first marker row go to no table;
\* of the rows between a marker row and the next, those that are blank after
\* trim are skipped, the first of the others is the table's header row with
\* each field trimmed, and the rest are its data rows, with their fields
\* unchanged and in order.
C13_MultiAssembly ==
    pc = "imported" =>
        LET parsed == ParsedRows
            count == Cardinality(MarkerPositions(parsed))
        IN  (\E k \in 1..Len(parsed) : HasPrefix(parsed[k])) =>
            /\ Len(detectedTables) = count
            /\ \A t \in 1..count :
                  LET seg == SegmentRows(parsed, t)
                  IN  /\ detectedTables[t].columns =
                             (IF seg = <<>> THEN <<>> ELSE Map(Trim, seg[1]))
                      /\ Len(seg) > 1 => detectedTables[t].rows = Tail(seg)

\* a marker row, a header row with padded fields and the same row as data
C13_Witness ==
    /\ pc = "imported"
    /\ download.text = Join(<<L_MARK_U, L_HEAD, L_HEAD>>, <<LF>>)
    /\ Len(detectedTables) = 1
    /\ detectedTables[1].columns = << <<"a">>, <<"b">> >>
    /\ detectedTables[1].rows = << << <<SP, "a">>, <<"b", SP>> >> >>

\* the text between the prefix at the start and the suffix at the end of a
\* trimmed first field of a marker row, trimmed
BetweenMarkers(content) ==
    Trim(SubSeq(content, Len(MARKER_PREFIX) + 1, Len(content) - Len(MARKER_SUFFIX)))

\* C14: the title of the table a marker row starts is the row's trimmed
\* first field without the marker prefix at its start and the marker suffix
\* at its end, trimmed; all other text of the title, a '<<<' or the text of
\* the prefix inside it included, is kept.
C14_TitleExtraction ==
    pc = "imported" =>
        LET markers == SelectSeq(ParsedRows, IsMarker)
        IN  Len(detectedTables) = Len(markers) =>
            \A t \in 1..Len(markers) :
                detectedTables[t].title = BetweenMarkers(FirstCellContent(markers[t]))

\* the title the file name gives: the name up to its last '.', or
\* '匯入的表格' when nothing stands before the last '.'
FallbackTitle ==
    IF download.name = <<"f", ".", "c">> THEN <<"f">> ELSE IMPORTED_TITLE

\* C15: when no row has the marker prefix, the one table made has row 0,
\* each field trimmed, as its headers; every later row that has a field
\* which is not empty after trim is a data row, in the order of the input
\* and with its fields unchanged; the rows that are blank after trim are
\* dropped; and the title is the fallback title the file name gives.
C15_SingleAssembly ==
    pc = "imported" =>
        LET parsed == ParsedRows
        IN  (parsed # <<>> /\ \A k \in 1..Len(parsed) : ~HasPrefix(parsed[k])) =>
            /\ Len(detectedTables) = 1
            /\ detectedTables[1].title = FallbackTitle
            /\ detectedTables[1].columns = Map(Trim, parsed[1])
            /\ LET kept == SelectSeq(Tail(parsed), HasContent)
               IN  kept # <<>> => detectedTables[1].rows = kept

\* a header row with padded fields, a blank row and a row of three fields,
\* in a file whose name has no extension
C15_Witness ==
    /\ pc = "imported"
    /\ download.name = <<"c">>
    /\ download.text = Join(<<L_HEAD, L_BLANK, L_LONG>>, <<LF>>)
    /\ detectedTables =
           << [title |-> IMPORTED_TITLE, columns |-> << <<"a">>, <<"b">> >>,
               rows |-> << << <<"x">>, <<>>, <<"y">> >> >>] >>

\* the data rows the rows of the file give table number t: in a bundle the
\* rows of the marker's segment after the header row, otherwise the rows
\* after row 0 that are not blank after trim
DataRowsOf(parsed, t) ==
    IF \E k \in 1..Len(parsed) : HasPrefix(parsed[k])
    THEN LET seg == SegmentRows(parsed, t)
         IN  IF seg = <<>> THEN <<>> ELSE Tail(seg)
    ELSE SelectSeq(Tail(parsed), HasContent)

\* C16: in both modes a table that is left without data rows has exactly
\* one row, of as many empty strings as the table has columns (of none when
\* it has no columns), and a table with data rows has exactly those.
C16_Backfill ==
    pc = "imported" =>
        LET parsed == ParsedRows
        IN  \A t \in 1..Len(detectedTables) :
                LET data == DataRowsOf(parsed, t)
                    table == detectedTables[t]
                IN  IF data = <<>>
                    THEN /\ Len(table.rows) = 1
                         /\ Len(table.rows[1]) = Len(table.columns)
                         /\ \A k \in 1..Len(table.columns) : table.rows[1][k] = <<>>
                    ELSE table.rows = data

\* a bundle of a table with headers and no data rows and a table with
\* neither: one row of two empty strings, and one row of none
C16_Witness ==
    /\ pc = "imported"
    /\ download.text = Join(<<L_MARK_T, L_HEAD, L_MARK_NONE>>, <<LF>>)
    /\ Len(detectedTables) = 2
    /\ detectedTables[1].rows = << << <<>>, <<>> >> >>
    /\ detectedTables[2].columns = <<>>
    /\ detectedTables[2].rows = << <<>> >>

\* C17: a data row that has fewer or more fields than the header row is in
\* the assembled table with exactly its own fields: it is neither padded
\* nor cut to the number of columns.
C17_RaggedKept ==
    pc = "imported" =>
        LET parsed == ParsedRows
        IN  \A t \in 1..Len(detectedTables) :
                LET data == DataRowsOf(parsed, t)
                    table == detectedTables[t]
                IN  \A r \in 1..Len(data) :
                        Len(data[r]) # Len(table.columns) =>
                            /\ r <= Len(table.rows)
                            /\ table.rows[r] = data[r]
                            /\ Len(table.rows[r]) # Len(table.columns)

\* 'x' and 'x,,y' under the two headers of ' a,b ': a row of one field and
\* a row of three
C17_Witness ==
    /\ pc = "imported"
    /\ download.text = Join(<<L_HEAD, L_SHORT, L_LONG>>, <<LF>>)
    /\ Len(detectedTables) = 1
    /\ detectedTables[1].columns = << <<"a">>, <<"b">> >>
    /\ detectedTables[1].rows = << << <<"x">> >>, << <<"x">>, <<>>, <<"y">> >> >>

\* the text read is empty, or the parser finds no row in it, or a row has
\* the marker prefix and no row is a marker row
NoResult(text) ==
    \/ text = <<>>
    \/ LET parsed == parseCSVToRows(text)
       IN  \/ parsed = <<>>
           \/ /\ \E k \in 1..Len(parsed) : HasPrefix(parsed[k])
              /\ \A k \in 1..Len(parsed) : ~IsMarker(parsed[k])

\* C18: reader.onload for a file whose text is empty, in which the parser
\* finds no row, or which is a bundle without a marker row, makes no table
\* (no identifier is generated) and leaves all pages and all their tables,
\* with the contents of their rows, as they are.
C18_NoResultNoOp ==
    [][\A r \in 1..Len(reads) :
          (reads' = WithoutIndex(reads, r) /\ NoResult(reads[r].text)) =>
              /\ pages' = pages
              /\ heap' = heap
              /\ nextId' = nextId]_vars

\* the empty file e.c is the value of the file input and its read is over;
\* the page has the table it had before
C18_Witness ==
    /\ pc = "ready"
    /\ download.name = <<"e", ".", "c">>
    /\ reads = <<>>
    /\ Len(pages) = 1
    /\ Len(pages[1].tables) = 1
    /\ pages[1].tables[1].title = <<"s">>

\* every table of the workspace has at least one data row: addNewTable
\* makes one, removeRow replaces the last one by an empty row and the
\* import backfills one (the state EveryTableHasRow describes for a page)
TablesKeepARow ==
    \A p \in 1..Len(pages) : \A t \in 1..Len(pages[p].tables) :
        Len(pages[p].tables[t].rows) >= 1

-----------------------------------------------------------------------------
(* The workspace: duplicates, identifiers, pages and the edit mode         *)

\* the step of a handler that reads no file, generates no identifier and
\* leaves each page with as many tables as it had: what every edit of a
\* cell, a header, a row or a column in a TableEditor is
KeepsTables ==
    /\ reads' = reads /\ nextId' = nextId
    /\ Len(pages') = Len(pages)
    /\ \A p \in 1..Len(pages) : Len(pages'[p].tables) = Len(pages[p].tables)

\* the places <<page, table>> of the tables whose value the step changes,
\* for a step that keeps the number of pages and of tables of each page
ChangedTables ==
    {pt \in UNION {{<<p, j>> : j \in 1..Len(pages[p].tables)} : p \in 1..Len(pages)} :
        TableValue(heap', pages'[pt[1]].tables[pt[2]])
            # TableValue(heap, pages[pt[1]].tables[pt[2]])}

\* the step duplicates table t of the active page: the page has one more
\* table, at its end, with an identifier no table or page has, the title
\* of t followed by ' (副本)' and the columns and rows of t, and every
\* other table and page is as before
DuplicateOf(t) ==
    LET p == CHOOSE q \in 1..Len(pages) : pages[q].id = activePageId
        orig == pages[p].tables[t]
        after == PageValues(heap', pages')
        before == PageValues(heap, pages)
        copy == after[p].tables[Len(after[p].tables)]
    IN  /\ Len(after) = Len(before)
        /\ \A q \in 1..Len(before) : q # p => after[q] = before[q]
        /\ after[p].id = before[p].id /\ after[p].name = before[p].name
        /\ Len(after[p].tables) = Len(before[p].tables) + 1
        /\ SubSeq(after[p].tables, 1, Len(before[p].tables)) = before[p].tables
        /\ copy.id \notin {x.id : x \in AllTables} \cup {pages[q].id : q \in 1..Len(pages)}
        /\ copy.title = orig.title \o <<SP, "(", "U526F", "U672C", ")">>
        /\ copy.columns = orig.columns
        /\ copy.rows = RowsIn(heap, orig)

\* C21: duplicating a table appends to the end of the active page a table
\* with a fresh identifier, the title of the original followed by
\* ' (副本)' and the columns and rows of the original; and an edit of a
\* cell, a header, a row or a column changes the value of one table at
\* most, so an edit of the copy leaves the original as it was and an edit
\* of the original leaves the copy as it was.
C21_DeepCopy ==
    [][/\ nextId' = nextId + 1 /\ reads' = reads /\ onDuplicate =>
              /\ activePage # <<>>
              /\ \E t \in 1..Len(filteredTables) : DuplicateOf(t)
       /\ KeepsTables => Cardinality(ChangedTables) <= 1]_vars

\* the stored table duplicated and a cell of the copy edited: the original
\* has its row as stored
C21_Witness ==
    /\ Len(pages) = 1
    /\ PageValues(heap, pages)[1].tables =
           << [id |-> 2, title |-> <<"s">>, columns |-> << <<"a">>, <<"b">> >>,
               rows |-> << << <<"x">>, <<>> >> >>],
              [id |-> 3, title |-> <<"s", SP, "(", "U526F", "U672C", ")">>,
               columns |-> << <<"a">>, <<"b">> >>,
               rows |-> << << <<"x">>, <<"x">> >> >>] >>

\* the page collection is one page '預設工作區' without tables, which is
\* the active page
DefaultWorkspace ==
    /\ Len(pages) = 1
    /\ pages[1].name = <<"U9810", "U8A2D", "U5DE5", "U4F5C", "U5340">>
    /\ pages[1].tables = <<>>
    /\ activePage = <<pages[1]>>

\* C22: at start-up, when the stored value is absent, is not parsable as
\* JSON, is not an array or is an empty array, the page collection becomes
\* one default page without tables, which is the active page; when the
\* stored value is a non-empty array, the page collection equals it and the
\* active page is its first element; App is running in either case.
C22_LoadFallback ==
    [][pc = "mount" =>
          /\ pc' = "ready"
          /\ IF storage.kind = "array" /\ Len(storage.pages) > 0
             THEN /\ PageValues(heap', pages') = storage.pages
                  /\ activePage' = <<pages'[1]>>
             ELSE DefaultWorkspace']_vars

\* the places <<page, table>> of the tables of the pages pgs
TablePlaces(pgs) ==
    UNION {{<<p, j>> : j \in 1..Len(pgs[p].tables)} : p \in 1..Len(pgs)}

\* no two tables of the workspace, of one page or of two, have the same
\* identifier
UniqueTableIds ==
    \A a \in TablePlaces(pages), b \in TablePlaces(pages) :
        a # b => pages[a[1]].tables[a[2]].id # pages[b[1]].tables[b[2]].id

\* C23: with a generateId that never returns a value it returned before, no
\* two tables of the workspace have the same identifier in any state
\* reached by new-table, import, duplicate, edit and delete operations, and
\* a step that adds or removes no table, as every edit is, leaves every
\* table with the identifier it had.
C23_UniqueIds ==
    /\ []UniqueTableIds
    /\ [][KeepsTables =>
             \A a \in TablePlaces(pages) :
                 pages'[a[1]].tables[a[2]].id = pages[a[1]].tables[a[2]].id]_vars

\* the stored table and the two tables imported from the file m.c after it
C23_Witness ==
    /\ Len(pages) = 1
    /\ [j \in 1..Len(pages[1].tables) |->
           <<pages[1].tables[j].id, pages[1].tables[j].title>>]
         = << <<2, <<"s">> >>, <<3, <<"t">> >>, <<4, <<"u">> >> >>

\* the table at place pt before and after the step, with its rows
OldTable(pt) == TableValue(heap, pages[pt[1]].tables[pt[2]])
NewTable(pt) == TableValue(heap', pages'[pt[1]].tables[pt[2]])

\* every row of the table value tv has as many cells as tv has columns
RectangularValue(tv) ==
    \A k \in 1..Len(tv.rows) : Len(tv.rows[k]) = Len(tv.columns)

\* n empty strings
EmptyCells(n) == [k \in 1..n |-> <<>>]

\* the sequence s without its element i
Without(s, index) == SubSeq(s, 1, index - 1) \o SubSeq(s, index + 1, Len(s))

\* the step edits one table and leaves every other table as it was; when
\* every row of the table was as long as its list of columns, the same
\* holds after the step and Post relates the table before and after
StructuralEdit(Post(_, _)) ==
    /\ KeepsTables
    /\ \E pt \in TablePlaces(pages) :
          /\ \A other \in TablePlaces(pages) \ {pt} :
                NewTable(other) = OldTable(other)
          /\ RectangularValue(OldTable(pt)) =>
                /\ RectangularValue(NewTable(pt))
                /\ Post(OldTable(pt), NewTable(pt))

\* addRow appends one row of empty strings, as many as there are columns
AddRowPost(o, n) ==
    n = [o EXCEPT !.rows = Append(@, EmptyCells(Len(o.columns)))]

\* addColumn appends the header '新欄位' and one empty cell to every row
AddColumnPost(o, n) ==
    n = [o EXCEPT !.columns = Append(@, <<"U65B0", "U6B04", "U4F4D">>),
                  !.rows = [k \in 1..Len(o.rows) |-> Append(o.rows[k], <<>>)]]

\* removeColumn(index) removes the header and, of every row, the cell
RemoveColumnPost(o, n) ==
    \E index \in 1..Len(o.columns) :
        n = [o EXCEPT !.columns = Without(@, index),
                      !.rows = [k \in 1..Len(o.rows) |-> Without(o.rows[k], index)]]

\* removeRow(index) removes the row and nothing else
RemoveRowPost(o, n) ==
    \E index \in 1..Len(o.rows) : n = [o EXCEPT !.rows = Without(@, index)]

C25_NeverRowless ==
    /\ []TablesKeepARow
    /\ [][/\ pages' # pages /\ removeRow =>
                /\ KeepsTables
                /\ \E pt \in TablePlaces(pages) :
                      /\ \A other \in TablePlaces(pages) \ {pt} :
                            NewTable(other) = OldTable(other)
                      /\ Len(OldTable(pt).rows) <= 1 =>
                            NewTable(pt) =
                                [OldTable(pt) EXCEPT
                                    !.rows = <<EmptyCells(Len(OldTable(pt).columns))>>]
          /\ pages' # pages /\ removeColumn =>
                /\ KeepsTables
                /\ \E pt \in TablePlaces(pages) :
                      /\ NewTable(pt) # OldTable(pt)
                      /\ Len(OldTable(pt).columns) >= 2
          /\ KeepsTables =>
                \A pt \in TablePlaces(pages) :
                    Len(OldTable(pt).columns) >= 1 => Len(NewTable(pt).columns) >= 1]_vars

\* the stored table, whose one row held 'x', after removeRow
C25_Witness ==
    /\ Len(pages) = 1
    /\ TableValues(heap, pages, 1) =
           << [id |-> 2, title |-> <<"s">>, columns |-> << <<"a">>, <<"b">> >>,
               rows |-> << << <<>>, <<>> >> >>] >>

\* the tables of page p after the step that are not among its first n, each
\* without its identifier
AppendedTables(p, n) ==
    LET tvs == TableValues(heap', pages', p)
    IN  [j \in 1..(Len(tvs) - n) |->
            [title |-> tvs[n + j].title, columns |-> tvs[n + j].columns,
             rows |-> tvs[n + j].rows]]

\* the step completes the read rd: the tables assembled from the text read
\* are, in order, after the tables of the page that was active when the
\* file was chosen, and these tables and every other page are as the step
\* found them; without that page no page changes
Completes(rd) ==
    LET before == PageValues(heap, pages)
        after == PageValues(heap', pages')
        assembled == DetectTables(rd.text, rd.fileName)
    IN  /\ Len(after) = Len(before)
        /\ \A p \in 1..Len(before) :
              IF before[p].id = rd.activePageId
              THEN /\ after[p].id = before[p].id
                   /\ after[p].name = before[p].name
                   /\ Len(after[p].tables) = Len(before[p].tables) + Len(assembled)
                   /\ SubSeq(after[p].tables, 1, Len(before[p].tables))
                          = before[p].tables
                   /\ AppendedTables(p, Len(before[p].tables)) = assembled
              ELSE after[p] = before[p]

\* C26: when the read of a file completes, the assembled tables are
\* appended in order after the tables of the page that was active when the
\* file was chosen; the pages are otherwise as every edit, table add or
\* delete and page add or rename made since then has left them, and when
\* that page is no longer there no page changes.
C26_ImportTarget ==
    [][\A r \in 1..Len(reads) :
           reads' = WithoutIndex(reads, r) => Completes(reads[r])]_vars

\* the file f.c chosen, a table added to the page, and the read completed:
\* the new table, the stored table and the imported table
C26_Witness ==
    /\ Len(pages) = 1
    /\ reads = <<>>
    /\ TableValues(heap, pages, 1) =
           << [id |-> 3, title |-> <<"U672A", "U547D", "U540D", "U8868", "U683C">>,
               columns |-> << <<"U6A19", "U984C", SP, "1">>,
                              <<"U6A19", "U984C", SP, "2">>,
                              <<"U6A19", "U984C", SP, "3">> >>,
               rows |-> << << <<>>, <<>>, <<>> >> >>],
              [id |-> 2, title |-> <<"s">>, columns |-> << <<"a">>, <<"b">> >>,
               rows |-> << << <<"x">>, <<>> >> >>],
              [id |-> 4, title |-> <<"f">>, columns |-> << <<"a">>, <<"b">> >>,
               rows |-> << << <<"x">>, <<"y">> >> >>] >>

\* C27: once App has started, in every state reached by addNewPage, page
\* selection, renamePage and executeDeletePage (and the other handlers) the
\* page list is not empty and activePageId is the identifier of a page of
\* the list; executeDeletePage of the only page leaves one default page
\* without tables, with an identifier no page or table had, as the active
\* page.
C27_PageCollection ==
    /\ [](pc = "ready" => Len(pages) >= 1 /\ activePage # <<>>)
    /\ [][Len(pages) = 1 /\ executeDeletePage =>
              /\ DefaultWorkspace'
              /\ pages'[1].id \notin {pages[1].id} \cup {x.id : x \in AllTables}]_vars

\* the default workspace after the deletion of its only page
C27_Witness ==
    /\ pc = "ready"
    /\ steps = 1
    /\ DefaultWorkspace
    /\ pages[1].id = 2

\* C28: executeDeletePage(id) on a list of two or more pages removes the
\* page with that identifier and keeps the other pages and their order;
\* when the page removed was the active one, the active page is the page
\* now at its index, or the last page when it was the last; when another
\* page was removed, the active page is the same.
C28_ActiveAfterDelete ==
    [][Len(pages') = Len(pages) - 1 /\ executeDeletePage =>
          \E d \in 1..Len(pages) :
              /\ PageValues(heap', pages') = Without(PageValues(heap, pages), d)
              /\ activePageId' =
                     IF activePageId # pages[d].id THEN activePageId
                     ELSE IF d <= Len(pages') THEN pages'[d].id
                     ELSE pages'[Len(pages')].id]_vars

\* the two stored pages and a new page, the second page selected and then
\* deleted: the new page, now at the second place, is the active one
C28_Witness ==
    /\ steps = 3
    /\ isEditMode
    /\ reads = <<>>
    /\ PageValues(heap, pages) =
           << [id |-> 1, name |-> <<"s">>, tables |-> <<>>],
              [id |-> 3, name |-> <<"U65B0", "U5DE5", "U4F5C", "U5340", SP, "3">>,
               tables |-> <<>>] >>
    /\ activePageId = 3

\* the identifiers of the tables of the workspace and one that no table has
SomeIds == {x.id : x \in AllTables} \cup {nextId}

\* a table value with the identifier id, as a handler of TableEditor
\* passes to onUpdate
SomeTable(id) ==
    [id |-> id, title |-> <<"t">>, columns |-> << <<"h">> >>, rows |-> <<>>]

\* the places of the tables of the active page that have the identifier id
PlacesOf(id) ==
    {pt \in TablePlaces(pages) :
        /\ pages[pt[1]].id = activePageId
        /\ pages[pt[1]].tables[pt[2]].id = id}

\* pgs has the pages of the workspace, each with its identifier and name,
\* and every page but the active one with its tables
SamePages(pgs) ==
    /\ Len(pgs) = Len(pages)
    /\ \A p \in 1..Len(pages) :
          /\ pgs[p].id = pages[p].id
          /\ pgs[p].name = pages[p].name
          /\ pages[p].id # activePageId => pgs[p].tables = pages[p].tables

\* C29: in edit mode updateTable(t) puts t in the place of the table of
\* the active page that has its identifier and deleteTable(id) takes that
\* table out of the active page; the other tables of the page keep their
\* number and order, every other page and the name and identifier of the
\* active page are unchanged, and with an identifier that no table of the
\* active page has nothing changes.
C29_TableFrame ==
    pc = "ready" /\ isEditMode =>
        \A id \in SomeIds :
            LET updated == updateTable(SomeTable(id))
                deleted == WithoutTable(id)
            IN  /\ SamePages(updated)
                /\ SamePages(deleted)
                /\ PlacesOf(id) = {} => updated = pages /\ deleted = pages
                /\ \A pt \in PlacesOf(id) :
                      /\ updated[pt[1]].tables =
                             [pages[pt[1]].tables EXCEPT ![pt[2]] = SomeTable(id)]
                      /\ deleted[pt[1]].tables = Without(pages[pt[1]].tables, pt[2])

\* the stored table duplicated and then deleted: the page has the copy,
\* and a second page has been added, so that the table is not in the
\* active page
C29_Witness ==
    /\ Len(pages) = 2
    /\ activePageId = pages[2].id
    /\ TableValues(heap, pages, 1) =
           << [id |-> 3, title |-> <<"s", SP, "(", "U526F", "U672C", ")">>,
               columns |-> << <<"a">>, <<"b">> >>,
               rows |-> << << <<"x">>, <<>> >> >>] >>

\* a call of one of the handlers that look at the edit mode: the edits of
\* TableEditor (which end in updateTable), deleteTable, addNewTable,
\* addNewPage, and the file dialog handleImportClick opens
GuardedHandler ==
    \/ addRow \/ addColumn \/ removeRow \/ removeColumn
    \/ updateCell \/ updateHeader
    \/ deleteTable \/ addNewTable \/ addNewPage
    \/ handleFileChange

\* C30: while isEditMode is false, addRow, addColumn, removeRow,
\* removeColumn, updateCell, updateHeader, updateTable, deleteTable,
\* addNewTable, addNewPage and handleImportClick have no effect: the page
\* collection, the active page and the files being read are the same after
\* as before; and the step that switches the edit mode leaves the page
\* collection as it is.
C30_EditModeGuard ==
    [][/\ ~isEditMode /\ GuardedHandler =>
              /\ PageValues(heap', pages') = PageValues(heap, pages)
              /\ activePageId' = activePageId
              /\ reads' = reads
       /\ isEditMode' # isEditMode =>
              PageValues(heap', pages') = PageValues(heap, pages)]_vars

\* the stored page in view mode after the switch of the edit mode and the
\* call of a handler that looks at the edit mode
C30_Witness ==
    /\ pc = "ready"
    /\ ~isEditMode
    /\ steps = 2
    /\ reads = <<>>
    /\ PageValues(heap, pages) = STORED_PAGES

====
